---- MODULE Spec2Model ----
(***************************************************************************)
(* Video -> Query -> Annotation store of the annotation backend             *)
(* (backend/main.py, backend/models.py, backend/migrate_schema.py).         *)
(*                                                                         *)
(* A Python str is a sequence of one-character strings, so that strip(),   *)
(* lower(), startswith() and int() are computed the way Python computes    *)
(* them.  A JSON scalar whose type matters (duration) is a tagged record.  *)
(* Every request handler is one atomic step: the steps of one handler run  *)
(* inside one session and one transaction.                                 *)
(***************************************************************************)
EXTENDS Integers, Sequences, FiniteSets, TLC

VARIABLES
    db,                  \* committed rows: [videos, queries, annotations]
    sess,                \* what the scoped session holds between requests
    seq,                 \* the id sequences of the three tables
    annotator_not_null,  \* does videos.annotator carry NOT NULL in the database
    pg,                  \* the queries and annotations tables as migrate_schema.py sees them
    clock,               \* utcnow and the created_at / updated_at of the rows
    running,             \* the requests in progress, each in its own transaction
    last                 \* the last request and its response

vars == <<db, sess, seq, annotator_not_null, pg, clock, running, last>>

----------------------------------------------------------------------------
(* Bounds *)

MaxVideoId == 2
MaxQueryId == 2
MaxAnnotationId == 2
MaxQueryItems == 2
MaxBatch == 3
MaxClock == 4

----------------------------------------------------------------------------
(* Python str *)

None == <<"None">>

Whitespace == {" "}

UpperCase == <<"A","B","C","D","E","F","G","H","I","J","K","L","M",
               "N","O","P","Q","R","S","T","U","V","W","X","Y","Z">>
LowerCase == <<"a","b","c","d","e","f","g","h","i","j","k","l","m",
               "n","o","p","q","r","s","t","u","v","w","x","y","z">>

RECURSIVE lstrip(_)
lstrip(s) ==
    IF s # <<>> /\ Head(s) \in Whitespace THEN lstrip(Tail(s)) ELSE s

RECURSIVE rstrip(_)
rstrip(s) ==
    IF s # <<>> /\ s[Len(s)] \in Whitespace
    THEN rstrip(SubSeq(s, 1, Len(s) - 1))
    ELSE s

strip_none(s) == s

strip(s) == rstrip(lstrip(s))

lower_char(c) ==
    IF \E i \in 1..26 : UpperCase[i] = c
    THEN LowerCase[CHOOSE i \in 1..26 : UpperCase[i] = c]
    ELSE c

lower(s) == [i \in 1..Len(s) |-> lower_char(s[i])]

startswith(s, prefix) ==
    Len(s) >= Len(prefix) /\ SubSeq(s, 1, Len(prefix)) = prefix

HttpPrefix == <<"h","t","t","p",":","/","/">>
HttpsPrefix == <<"h","t","t","p","s",":","/","/">>

is_video_url_any(url) == url # <<>>

is_video_url(url) ==
    IF url = <<>> THEN FALSE
    ELSE LET url_lower == lower(url)
         IN  startswith(url_lower, HttpPrefix) \/ startswith(url_lower, HttpsPrefix)

----------------------------------------------------------------------------
(* JSON scalars and Python's bool(), isinstance(_, int) and int()          *)

JNull == [t |-> "null", s |-> <<>>, n |-> 0]
JInt(n) == [t |-> "int", s |-> <<>>, n |-> n]
JStr(s) == [t |-> "str", s |-> s, n |-> 0]
\* a float: n is the value truncated toward zero, s the fractional digits
JFloat(n, frac) == [t |-> "float", s |-> frac, n |-> n]

Truthy(x) ==
    CASE x.t = "null" -> FALSE
      [] x.t = "int" -> x.n # 0
      [] x.t = "str" -> x.s # <<>>
      [] x.t = "float" -> x.n # 0 \/ \E i \in 1..Len(x.s) : x.s[i] # "0"
      [] OTHER -> FALSE

Digits == <<"0","1","2","3","4","5","6","7","8","9">>
IsDigit(c) == \E i \in 1..10 : Digits[i] = c
DigitVal(c) == (CHOOSE i \in 1..10 : Digits[i] = c) - 1

RECURSIVE DigitsVal(_)
DigitsVal(s) ==
    IF s = <<>> THEN 0
    ELSE 10 * DigitsVal(SubSeq(s, 1, Len(s) - 1)) + DigitVal(s[Len(s)])

\* int(str): surrounding whitespace, an optional sign, at least one digit
int_of_str(s) ==
    LET t == strip(s)
        signed == t # <<>> /\ Head(t) \in {"+", "-"}
        d == IF signed THEN Tail(t) ELSE t
    IN  IF d = <<>> \/ \E i \in 1..Len(d) : ~IsDigit(d[i])
        THEN [ok |-> FALSE, n |-> 0]
        ELSE [ok |-> TRUE,
              n |-> IF signed /\ Head(t) = "-" THEN 0 - DigitsVal(d) ELSE DigitsVal(d)]

\* int(x); ok = FALSE stands for ValueError / TypeError
int(x) ==
    CASE x.t = "int" -> [ok |-> TRUE, n |-> x.n]
      [] x.t = "float" -> [ok |-> TRUE, n |-> x.n]
      [] x.t = "str" -> int_of_str(x.s)
      [] OTHER -> [ok |-> FALSE, n |-> 0]

----------------------------------------------------------------------------
(* The duration-lookup collaborator.  info is what yt-dlp's extract_info   *)
(* yields: [t |-> "raise"] when it throws, else the value of               *)
(* info.get('duration').                                                   *)

LookupRaises == [t |-> "raise", s |-> <<>>, n |-> 0]

get_video_duration(info) ==
    IF info.t = "raise" THEN JNull
    ELSE IF Truthy(info) /\ int(info).ok THEN JInt(int(info).n)
    ELSE JNull

----------------------------------------------------------------------------
(* Rows (models.py) *)

NULL == <<"NULL">>

Video(url, title, description, topic, duration) ==
    [id |-> 0, url |-> url, title |-> title, description |-> description,
     topic |-> topic, duration |-> duration, notes |-> NULL,
     annotator |-> NULL, status |-> "pending"]

Query(video_id, query_text) ==
    [id |-> 0, video_id |-> video_id, query_text |-> query_text,
     status |-> "pending"]

Annotation(query_id, start_timestamp, end_timestamp, notes) ==
    [id |-> 0, query_id |-> query_id, start_timestamp |-> start_timestamp,
     end_timestamp |-> end_timestamp, notes |-> notes]

TimestampLen == 8

\* the NOT NULL columns of videos, as the database enforces them
VideoColumnsOk(v, strict) ==
    /\ v.url # NULL
    /\ v.title # NULL
    /\ strict => v.annotator # NULL

QueryColumnsOk(q) == q.query_text # NULL

\* String(8) columns: a longer value is a DataError
AnnotationColumnsOk(a) ==
    /\ a.start_timestamp = None \/ Len(a.start_timestamp) <= TimestampLen
    /\ a.end_timestamp = None \/ Len(a.end_timestamp) <= TimestampLen

EmptyStore == [videos |-> {}, queries |-> {}, annotations |-> {}]

----------------------------------------------------------------------------
(* The session.  A transaction tx is the session's view of the tables      *)
(* (committed rows plus the rows it has flushed), the Annotation objects   *)
(* added but not yet flushed, the id sequences, and whether an exception   *)
(* has been raised.  Rows are numbered in the order they are committed:    *)
(* an id drawn by a flush that is rolled back is drawn again later.        *)

FlushVideo_commit(tx, v, strict) ==
    LET row == [v EXCEPT !.id = tx.seq.v]
        tx1 == [tx EXCEPT !.seq.v = @ + 1]
    IN  IF VideoColumnsOk(row, strict)
        THEN [tx1 EXCEPT !.view.videos = @ \cup {row}, !.flushed = TRUE,
                         !.committed = [tx.view EXCEPT !.videos = @ \cup {row}],
                         !.cseq = tx1.seq]
        ELSE [tx1 EXCEPT !.raised = TRUE]

\* db.session.add(video); db.session.flush()
FlushVideo(tx, v, strict) ==
    LET row == [v EXCEPT !.id = tx.seq.v]
        tx1 == [tx EXCEPT !.seq.v = @ + 1]
    IN  IF VideoColumnsOk(row, strict)
        THEN [tx1 EXCEPT !.view.videos = @ \cup {row}, !.flushed = TRUE]
        ELSE [tx1 EXCEPT !.raised = TRUE]

FlushQuery_commit(tx, q) ==
    LET row == [q EXCEPT !.id = tx.seq.q]
        tx1 == [tx EXCEPT !.seq.q = @ + 1]
    IN  IF QueryColumnsOk(row)
        THEN [tx1 EXCEPT !.view.queries = @ \cup {row}, !.flushed = TRUE,
                         !.committed = [tx.view EXCEPT !.queries = @ \cup {row}],
                         !.cseq = tx1.seq]
        ELSE [tx1 EXCEPT !.raised = TRUE]

\* db.session.add(query); db.session.flush()
FlushQuery(tx, q) ==
    LET row == [q EXCEPT !.id = tx.seq.q]
        tx1 == [tx EXCEPT !.seq.q = @ + 1]
    IN  IF QueryColumnsOk(row)
        THEN [tx1 EXCEPT !.view.queries = @ \cup {row}, !.flushed = TRUE]
        ELSE [tx1 EXCEPT !.raised = TRUE]

\* the session flushes its pending Annotation objects, in the order added,
\* before every query it runs and before it commits
RECURSIVE Autoflush(_)
Autoflush(tx) ==
    IF tx.raised \/ tx.unflushed = <<>> THEN tx
    ELSE LET a == Head(tx.unflushed)
             row == [a EXCEPT !.id = tx.seq.a]
             tx1 == [tx EXCEPT !.seq.a = @ + 1, !.unflushed = Tail(@)]
         IN  IF AnnotationColumnsOk(row)
             THEN Autoflush([tx1 EXCEPT !.view.annotations = @ \cup {row},
                                        !.flushed = TRUE])
             ELSE [tx1 EXCEPT !.raised = TRUE]

Begin(committed, session, s) ==
    [committed |-> committed, view |-> session.view,
     unflushed |-> session.unflushed, seq |-> s, cseq |-> s,
     raised |-> FALSE, lookups |-> 0, flushed |-> FALSE]

\* db.session.commit(): flush what is pending, then make the view durable
commit(tx) ==
    LET tx1 == Autoflush(tx)
    IN  IF tx1.raised THEN tx1
        ELSE [tx1 EXCEPT !.committed = tx1.view, !.cseq = tx1.seq]

\* db.session.rollback()
rollback(tx) ==
    [tx EXCEPT !.view = tx.committed, !.unflushed = <<>>, !.seq = tx.cseq]

AddAnnotation_dedup(tx, a) ==
    IF \/ \E i \in DOMAIN tx.unflushed : tx.unflushed[i] = a
       \/ \E x \in tx.view.annotations : [x EXCEPT !.id = 0] = a
    THEN tx
    ELSE [tx EXCEPT !.unflushed = Append(@, a)]

\* db.session.add(annotation)
AddAnnotation(tx, a) == [tx EXCEPT !.unflushed = Append(@, a)]

\* dict.get(key, default)
Get(d, key, default) == IF key \in DOMAIN d THEN d[key] ELSE default

DefaultTimestamp == <<"0","0",":","0","0",":","0","0">>

----------------------------------------------------------------------------
(* The ingest engine: main.py 115-247, and its copy 324-456 in the batch   *)
(* handler, which differs only in the wording of the error messages.       *)

RECURSIVE AddAnnotations_count_all(_, _, _, _)
AddAnnotations_count_all(tx, query_id, annotations_data, count) ==
    IF annotations_data = <<>> THEN [tx |-> tx, count |-> count]
    ELSE LET annotation_item == Head(annotations_data)
         IN  IF "notes" \in DOMAIN annotation_item
             THEN AddAnnotations_count_all(
                      AddAnnotation(tx, Annotation(query_id,
                          Get(annotation_item, "start_timestamp", DefaultTimestamp),
                          Get(annotation_item, "end_timestamp", DefaultTimestamp),
                          annotation_item.notes)),
                      query_id, Tail(annotations_data), count + 1)
             ELSE AddAnnotations_count_all(tx, query_id, Tail(annotations_data),
                                           count + 1)

\* lines 238-247: one Annotation per entry that has a "notes" key
RECURSIVE AddAnnotations(_, _, _, _)
AddAnnotations(tx, query_id, annotations_data, count) ==
    IF annotations_data = <<>> THEN [tx |-> tx, count |-> count]
    ELSE LET annotation_item == Head(annotations_data)
         IN  IF "notes" \in DOMAIN annotation_item
             THEN AddAnnotations(
                      AddAnnotation(tx, Annotation(query_id,
                          Get(annotation_item, "start_timestamp", DefaultTimestamp),
                          Get(annotation_item, "end_timestamp", DefaultTimestamp),
                          annotation_item.notes)),
                      query_id, Tail(annotations_data), count + 1)
             ELSE AddAnnotations(tx, query_id, Tail(annotations_data), count)

\* Query.query.filter_by(video_id=..., query_text=...): the rows .first()
\* may return (the statement has no ORDER BY)
existing_query_committed(tx, video_id, query_text) ==
    {q \in tx.committed.queries :
        q.video_id = video_id /\ q.query_text = query_text}

existing_query_none(tx, video_id, query_text) == {}

existing_query(tx, video_id, query_text) ==
    {q \in tx.view.queries : q.video_id = video_id /\ q.query_text = query_text}

\* lines 213-247: the loop over queries_data.  The result is the set of
\* possible outcomes [tx, qc, ac] (queries and annotations created).
RECURSIVE ProcessQueries(_, _, _, _, _)
ProcessQueries(tx, video_id, queries_data, qc, ac) ==
    IF tx.raised \/ queries_data = <<>>
    THEN {[tx |-> tx, qc |-> qc, ac |-> ac]}
    ELSE
    LET query_item == Head(queries_data)
        rest == Tail(queries_data)
    IN
    IF "query_text" \notin DOMAIN query_item
    THEN ProcessQueries(tx, video_id, rest, qc, ac)
    ELSE IF query_item.query_text = None    \* None.strip(): AttributeError
    THEN {[tx |-> [tx EXCEPT !.raised = TRUE], qc |-> qc, ac |-> ac]}
    ELSE IF strip(query_item.query_text) = <<>>
    THEN ProcessQueries(tx, video_id, rest, qc, ac)
    ELSE
    LET query_text == strip(query_item.query_text)
        tx1 == Autoflush(tx)
        found == existing_query(tx1, video_id, query_text)
        annotations_data == Get(query_item, "annotations", <<>>)
    IN
    IF tx1.raised THEN {[tx |-> tx1, qc |-> qc, ac |-> ac]}
    ELSE IF found # {}
    THEN UNION {
           LET r == AddAnnotations(tx1, query.id, annotations_data, 0)
           IN  ProcessQueries(r.tx, video_id, rest, qc, ac + r.count)
           : query \in found }
    ELSE
    LET tx2 == FlushQuery(tx1, Query(video_id, query_text))
        r == AddAnnotations(tx2, tx1.seq.q, annotations_data, 0)
    IN  IF tx2.raised THEN {[tx |-> tx2, qc |-> qc, ac |-> ac]}
        ELSE ProcessQueries(r.tx, video_id, rest, qc + 1, ac + r.count)

\* Video.query.filter_by(url=video_url): the rows .first() may return
existing_video_by_title(tx, data) ==
    {v \in tx.view.videos : v.title = data.title}

existing_video_committed(tx, data) ==
    {v \in tx.committed.videos : v.url = data.url}

existing_video_none(tx, data) == {}

existing_video(tx, data) ==
    {v \in tx.view.videos : v.url = data.url}

\* lines 150-189: the duration of a new video.  info is the collaborator's
\* answer, used only if the code calls it.
ResolveDuration(data, video_url, info) ==
    LET given == Get(data, "duration", JNull)
        fetch == ~Truthy(given) /\ is_video_url(video_url)
        video_duration == IF fetch THEN get_video_duration(info) ELSE given
        lookups == IF fetch THEN 1 ELSE 0
        Fail(err) == [ok |-> FALSE, error |-> err, duration |-> 0, lookups |-> lookups]
    IN
    IF fetch /\ ~Truthy(video_duration)
    THEN Fail("Unable to fetch video duration")
    ELSE IF ~fetch /\ ~Truthy(given)
    THEN Fail("Missing video duration")
    ELSE IF video_duration.t # "int" /\ ~int(video_duration).ok
    THEN Fail("Invalid duration format")
    ELSE IF int(video_duration).n <= 0
    THEN Fail("Invalid duration")
    ELSE [ok |-> TRUE, error |-> "", duration |-> int(video_duration).n,
          lookups |-> lookups]

ItemResult(kind, error, tx, video_id, video_existed, qc, ac) ==
    [kind |-> kind, error |-> error, tx |-> tx, video_id |-> video_id,
     video_existed |-> video_existed, queries_created |-> qc,
     annotations_created |-> ac]

Reject(tx, error) == {ItemResult("reject", error, tx, 0, FALSE, 0, 0)}
Raise(tx) == {ItemResult("raise", "Server error", tx, 0, FALSE, 0, 0)}

\* lines 208-247 for the resolved video
WithVideo(tx, video_id, video_existed, data) ==
    { IF r.tx.raised THEN ItemResult("raise", "Server error", r.tx, 0, FALSE, 0, 0)
      ELSE ItemResult("ok", "", r.tx, video_id, video_existed, r.qc, r.ac)
      : r \in ProcessQueries(tx, video_id, Get(data, "queries", <<>>), 0, 0) }

IngestItem_url_first(tx, data, info, strict) ==
    IF "url" \notin DOMAIN data THEN Reject(tx, "Missing video URL")
    ELSE IF data.url = None THEN Raise(tx)
    ELSE IF strip(data.url) = <<>> THEN Reject(tx, "Empty URL")
    ELSE IF "title" \notin DOMAIN data THEN Reject(tx, "Missing video title")
    ELSE IF data.title = None THEN Raise(tx)
    ELSE IF strip(data.title) = <<>> THEN Reject(tx, "Empty title")
    ELSE
    LET tx1 == Autoflush(tx)
        found == existing_video(tx1, data)
    IN
    IF tx1.raised THEN Raise(tx1)
    ELSE IF found # {}
    THEN UNION {WithVideo(tx1, video.id, TRUE, data) : video \in found}
    ELSE
    LET d == ResolveDuration(data, data.url, info)
        tx2 == [tx1 EXCEPT !.lookups = @ + d.lookups]
        tx3 == FlushVideo(tx2,
                   Video(data.url, data.title, Get(data, "description", <<>>),
                         Get(data, "topic", <<>>), d.duration),
                   strict)
    IN  IF ~d.ok THEN Reject(tx2, d.error)
        ELSE IF tx3.raised THEN Raise(tx3)
        ELSE WithVideo(tx3, tx2.seq.v, FALSE, data)

\* one submission, up to (not including) the commit
IngestItem(tx, data, info, strict) ==
    IF "url" \notin DOMAIN data THEN Reject(tx, "Missing video URL")
    ELSE IF "title" \notin DOMAIN data THEN Reject(tx, "Missing video title")
    ELSE IF data.url = None THEN Raise(tx)         \* None.strip()
    ELSE IF strip(data.url) = <<>> THEN Reject(tx, "Empty URL")
    ELSE IF data.title = None THEN Raise(tx)
    ELSE IF strip(data.title) = <<>> THEN Reject(tx, "Empty title")
    ELSE
    LET tx1 == Autoflush(tx)
        found == existing_video(tx1, data)
    IN
    IF tx1.raised THEN Raise(tx1)
    ELSE IF found # {}
    THEN UNION {WithVideo(tx1, video.id, TRUE, data) : video \in found}
    ELSE
    LET d == ResolveDuration(data, data.url, info)
        tx2 == [tx1 EXCEPT !.lookups = @ + d.lookups]
        tx3 == FlushVideo(tx2,
                   Video(data.url, data.title, Get(data, "description", <<>>),
                         Get(data, "topic", <<>>), d.duration),
                   strict)
    IN  IF ~d.ok THEN Reject(tx2, d.error)
        ELSE IF tx3.raised THEN Raise(tx3)
        ELSE WithVideo(tx3, tx2.seq.v, FALSE, data)

----------------------------------------------------------------------------
(* The request handlers.  Each yields the set of possible outcomes         *)
(* [tx, resp]: the transaction as the handler leaves it and the response.  *)

VideoRow(view, id) == CHOOSE v \in view.videos : v.id = id
QueryRow(view, id) == CHOOSE q \in view.queries : q.id = id

ErrorResponse(code, error, index) ==
    [code |-> code, error |-> error, index |-> index]

\* POST /api/submit_video
submit_video_url(tx0, data, info, strict) ==
    { IF r.kind = "reject"
      THEN [tx |-> r.tx, resp |-> ErrorResponse(400, r.error, -1)]
      ELSE IF r.kind = "raise"
      THEN [tx |-> rollback(r.tx), resp |-> ErrorResponse(500, "Server error", -1)]
      ELSE LET tx1 == commit(r.tx)
           IN  IF tx1.raised
               THEN [tx |-> rollback(tx1),
                     resp |-> ErrorResponse(500, "Server error", -1)]
               ELSE [tx |-> tx1,
                     resp |-> [code |-> 201, error |-> "", index |-> -1,
                               video |-> VideoRow(tx1.view, r.video_id),
                               video_existed |-> r.video_existed,
                               queries_created |-> r.queries_created,
                               annotations_created |-> r.annotations_created]]
      : r \in IngestItem(tx0, data, info, strict) }

enumerate_from_one(pos) == pos

\* enumerate(data): the index of the item at position pos (1-based)
enumerate(pos) == pos - 1

\* lines 322-466: the loop over the items of a batch
RECURSIVE BatchLoop(_, _, _, _, _, _)
BatchLoop(tx, data, pos, results, info, strict) ==
    IF pos > Len(data)
    THEN {[kind |-> "ok", error |-> "", idx |-> -1, tx |-> tx, results |-> results]}
    ELSE UNION {
           IF r.kind = "ok"
           THEN BatchLoop(r.tx, data, pos + 1,
                    Append(results,
                        [video |-> VideoRow(r.tx.view, r.video_id),
                         video_existed |-> r.video_existed,
                         queries_created |-> r.queries_created,
                         annotations_created |-> r.annotations_created]),
                    info, strict)
           ELSE {[kind |-> r.kind, error |-> r.error, idx |-> enumerate(pos),
                  tx |-> r.tx, results |-> results]}
           : r \in IngestItem(tx, data[pos], info, strict) }

RECURSIVE SumOf(_, _)
SumOf(results, field) ==
    IF results = <<>> THEN 0
    ELSE results[1][field] + SumOf(Tail(results), field)

CountIf_all(results, existed) == Len(results)

CountIf(results, existed) ==
    Cardinality({i \in DOMAIN results : results[i].video_existed = existed})

\* POST /api/submit_videos
submit_multiple_videos(tx0, data, info, strict) ==
    IF Len(data) = 0
    THEN {[tx |-> tx0, resp |-> ErrorResponse(400, "Empty array", -1)]}
    ELSE
    { IF b.kind = "reject"
      THEN [tx |-> b.tx, resp |-> ErrorResponse(400, b.error, b.idx)]
      ELSE IF b.kind = "raise"
      THEN [tx |-> rollback(b.tx), resp |-> ErrorResponse(500, "Server error", -1)]
      ELSE LET tx1 == commit(b.tx)
           IN  IF tx1.raised
               THEN [tx |-> rollback(tx1),
                     resp |-> ErrorResponse(500, "Server error", -1)]
               ELSE [tx |-> tx1,
                     resp |-> [code |-> 201, error |-> "", index |-> -1,
                               videos_processed |-> Len(b.results),
                               new_videos |-> CountIf(b.results, FALSE),
                               existing_videos |-> CountIf(b.results, TRUE),
                               total_queries_created |->
                                   SumOf(b.results, "queries_created"),
                               total_annotations_created |->
                                   SumOf(b.results, "annotations_created"),
                               results |-> b.results]]
      : b \in BatchLoop(tx0, data, 1, <<>>, info, strict) }

\* POST /api/videos/<video_id>/queries
create_query(tx0, video_id, data) ==
    IF ~\E v \in tx0.view.videos : v.id = video_id
    THEN {[tx |-> tx0, resp |-> ErrorResponse(404, "Not found", -1)]}
    ELSE IF "query_text" \notin DOMAIN data
    THEN {[tx |-> tx0, resp |-> ErrorResponse(400, "Missing query text", -1)]}
    ELSE IF data.query_text = None
    THEN {[tx |-> rollback(tx0), resp |-> ErrorResponse(500, "Server error", -1)]}
    ELSE IF strip(data.query_text) = <<>>
    THEN {[tx |-> tx0, resp |-> ErrorResponse(400, "Empty query", -1)]}
    ELSE
    LET tx1 == commit(FlushQuery(tx0, Query(video_id, data.query_text)))
    IN  IF tx1.raised
        THEN {[tx |-> rollback(tx1), resp |-> ErrorResponse(500, "Server error", -1)]}
        ELSE {[tx |-> tx1,
               resp |-> [code |-> 201, error |-> "", index |-> -1,
                         query |-> QueryRow(tx1.view, tx0.seq.q)]]}

\* PUT /api/queries/<query_id>
update_query(tx0, query_id, data) ==
    IF ~\E q \in tx0.view.queries : q.id = query_id
    THEN {[tx |-> tx0, resp |-> ErrorResponse(404, "Not found", -1)]}
    ELSE
    LET query == QueryRow(tx0.view, query_id)
        set == "query_text" \in DOMAIN data
        updated == IF set THEN [query EXCEPT !.query_text = data.query_text]
                   ELSE query
        tx1 == commit([tx0 EXCEPT !.view.queries = (@ \ {query}) \cup {updated}])
    IN
    IF set /\ data.query_text = None
    THEN {[tx |-> rollback(tx0), resp |-> ErrorResponse(500, "Server error", -1)]}
    ELSE IF set /\ strip(data.query_text) = <<>>
    THEN {[tx |-> tx0, resp |-> ErrorResponse(400, "Empty query", -1)]}
    ELSE IF tx1.raised
    THEN {[tx |-> rollback(tx1), resp |-> ErrorResponse(500, "Server error", -1)]}
    ELSE {[tx |-> tx1,
           resp |-> [code |-> 200, error |-> "", index |-> -1,
                     query |-> QueryRow(tx1.view, query_id)]]}

\* the scoped session is removed when the request ends: what the handler
\* left uncommitted is discarded
shutdown_session(tx) == [view |-> tx.committed, unflushed |-> <<>>]

----------------------------------------------------------------------------
(* Request bodies *)

EmptyObj == [k \in {} |-> 0]

UrlA == <<"h","t","t","p",":","/","/","a">>
UrlB == <<"H","T","T","P","S",":","/","/","b">>
UrlLocal == <<"/","c">>
Blank == <<" ">>
TitleT == <<"T">>
TitleU == <<"U">>
TextA == <<"a">>
TextAPadded == <<" ","a"," ">>
TextB == <<"b">>
Timestamp5 == <<"0","0",":","0","0",":","0","5">>
TimestampLong == <<"0","0",":","0","0",":","0","0","5">>

AnnN == [notes |-> <<"n">>]
AnnNoNotes == [start_timestamp |-> Timestamp5]
AnnLong == [notes |-> <<"n">>, start_timestamp |-> TimestampLong]

QueryItems ==
    { [query_text |-> TextA, annotations |-> <<AnnN>>],
      [query_text |-> TextAPadded, annotations |-> <<AnnN, AnnNoNotes>>],
      [query_text |-> Blank, annotations |-> <<AnnN>>],
      [query_text |-> None],
      [query_text |-> TextB, annotations |-> <<AnnLong>>] }

SeqsUpTo(S, n) == UNION {[1..k -> S] : k \in 0..n}

QueryLists == SeqsUpTo(QueryItems, MaxQueryItems)

OtherMeta == [title |-> TitleU, description |-> <<"d">>, topic |-> <<"t">>]

\* bodies that exercise the url and title checks
ValidationBodies ==
    { [title |-> TitleT], [url |-> UrlA], [url |-> Blank, title |-> TitleT],
      [url |-> UrlA, title |-> Blank], [url |-> Blank],
      [url |-> None, title |-> TitleT] }

\* bodies that exercise the queries and annotations
IngestBodies ==
    { [url |-> UrlA, title |-> TitleT, duration |-> JInt(42), queries |-> qs] :
        qs \in QueryLists }
    \cup { [url |-> u, duration |-> JInt(42)] @@ OtherMeta : u \in {UrlA, UrlLocal} }
    \cup { [url |-> UrlLocal, duration |-> JInt(42), queries |-> <<q>>] @@ OtherMeta :
            q \in QueryItems }

Bodies == ValidationBodies \cup IngestBodies

BatchItems ==
    { [url |-> UrlA, title |-> TitleT, duration |-> JInt(42),
       queries |-> <<[query_text |-> TextA, annotations |-> <<AnnN>>]>>],
      [url |-> UrlLocal, title |-> Blank, duration |-> JInt(42)] }

Batches == SeqsUpTo(BatchItems, MaxBatch)

QueryBodies ==
    {[query_text |-> t] : t \in {TextA, TextAPadded, Blank, None}}
    \cup {EmptyObj}

\* what the collaborator answers when asked
Answer42 == {JInt(42)}
LookupAnswers ==
    {LookupRaises, JNull, JInt(0), JInt(42), JFloat(0, <<"5">>), JFloat(7, <<"9">>)}

\* bodies that exercise the duration of a submission
DurationValues ==
    { JNull, JInt(0), JInt(-1), JInt(42), JStr(<<>>), JStr(<<"7">>),
      JStr(<<" ","7"," ">>), JStr(<<"x">>), JStr(<<"0">>), JStr(<<"-","3">>),
      JFloat(0, <<"5">>), JFloat(7, <<"5">>) }

DurationBodies ==
    { [url |-> u, title |-> TitleT] @@ d :
        u \in {UrlA, UrlB, UrlLocal},
        d \in {EmptyObj} \cup {[duration |-> x] : x \in DurationValues} }

\* the same bodies sent as one-item batches
DurationBatches == {<<b>> : b \in {x \in DurationBodies : x.url = UrlA}}

----------------------------------------------------------------------------
(* The store at start-up: empty, or holding rows written earlier           *)

SeedVideo ==
    [id |-> 1, url |-> UrlA, title |-> TitleT, description |-> <<>>,
     topic |-> <<>>, duration |-> 10, notes |-> NULL,
     annotator |-> <<"x">>, status |-> "pending"]
SeedQuery == [id |-> 1, video_id |-> 1, query_text |-> TextB, status |-> "pending"]
SeedAnnotation ==
    [id |-> 1, query_id |-> 1, start_timestamp |-> DefaultTimestamp,
     end_timestamp |-> DefaultTimestamp, notes |-> <<"n">>]

SeedStore ==
    [videos |-> {SeedVideo}, queries |-> {SeedQuery},
     annotations |-> {SeedAnnotation}]

NoRequest ==
    [op |-> "none", resp |-> ErrorResponse(0, "", -1), before |-> EmptyStore,
     lookups |-> 0, flushed |-> FALSE]

\* the schema create_all makes from models.py, before any migration
TableOf(columns, rows) == [columns |-> columns, rows |-> rows]
ModelSchema ==
    [queries |-> TableOf({"id", "status"}, {}),
     annotations |-> TableOf({"id"}, {}), runs |-> 0]

Ids(rows) == {r.id : r \in rows}

\* rows that exist at the start were stamped at time 0; the clock reads 1
InitialClock(store) ==
    [now |-> 1,
     videos |-> [id \in Ids(store.videos) |-> [created_at |-> 0, updated_at |-> 0]],
     queries |-> [id \in Ids(store.queries) |-> [created_at |-> 0, updated_at |-> 0]],
     annotations |->
         [id \in Ids(store.annotations) |-> [created_at |-> 0, updated_at |-> 0]]]

Procs == {1, 2}

\* a worker that is serving no request
Idle ==
    [op |-> "none", pc |-> "done", data |-> EmptyObj, id |-> 0, code |-> 0,
     video_id |-> 0, query_id |-> 0,
     ins |-> EmptyStore, del |-> EmptyStore, loaded |-> EmptyStore,
     tried |-> EmptyStore]

Init ==
    /\ annotator_not_null \in BOOLEAN
    /\ running = [p \in Procs |-> Idle]
    /\ pg = ModelSchema
    /\ db \in {EmptyStore, SeedStore}
    /\ clock = InitialClock(db)
    /\ sess = [view |-> db, unflushed |-> <<>>]
    /\ seq = [v |-> Cardinality(db.videos) + 1, q |-> Cardinality(db.queries) + 1,
              a |-> Cardinality(db.annotations) + 1]
    /\ last = NoRequest

WithinBounds(s) ==
    /\ s.v <= MaxVideoId + 1
    /\ s.q <= MaxQueryId + 1
    /\ s.a <= MaxAnnotationId + 1

\* a request ends: the handler's transaction becomes the new state
Settle(o, request) ==
    /\ WithinBounds(o.tx.cseq)
    /\ db' = o.tx.committed
    /\ sess' = shutdown_session(o.tx)
    /\ seq' = o.tx.cseq
    /\ last' = request @@ [resp |-> o.resp, before |-> db,
                           lookups |-> o.tx.lookups, flushed |-> o.tx.flushed]
    /\ UNCHANGED <<annotator_not_null, pg, running>>

\* the same, with the time columns left out of the picture
Finish(o, request) == Settle(o, request) /\ UNCHANGED clock

SubmitVideo(bodies, answers) ==
    \E data \in bodies, info \in answers :
        \E o \in submit_video_url(Begin(db, sess, seq), data, info,
                                  annotator_not_null) :
            Finish(o, [op |-> "submit_video", data |-> data, info |-> info])

SubmitVideos(batches, answers) ==
    \E data \in batches, info \in answers :
        \E o \in submit_multiple_videos(Begin(db, sess, seq), data, info,
                                        annotator_not_null) :
            Finish(o, [op |-> "submit_videos", data |-> data, info |-> info])

CreateQueryOf(bodies) ==
    \E video_id \in 1..MaxVideoId, data \in bodies :
        \E o \in create_query(Begin(db, sess, seq), video_id, data) :
            Finish(o, [op |-> "create_query", id |-> video_id, data |-> data])

CreateQuery == CreateQueryOf(QueryBodies)

UpdateQueryOf(bodies) ==
    \E query_id \in 1..MaxQueryId, data \in bodies :
        \E o \in update_query(Begin(db, sess, seq), query_id, data) :
            Finish(o, [op |-> "update_query", id |-> query_id, data |-> data])

UpdateQuery == UpdateQueryOf(QueryBodies)

Next ==
    \/ SubmitVideo(Bodies, Answer42)
    \/ SubmitVideos(Batches, Answer42)
    \/ CreateQuery
    \/ UpdateQuery

Spec == Init /\ [][Next]_vars

\* submissions that differ in their url, their duration and the
\* collaborator's answer
NextDuration ==
    \/ SubmitVideo(DurationBodies, LookupAnswers)
    \/ SubmitVideos(DurationBatches, LookupAnswers)

SpecDuration == Init /\ [][NextDuration]_vars

----------------------------------------------------------------------------
(* What the last request was *)

Submitted == last.op = "submit_video"
Batch == last.op = "submit_videos"
Succeeded == last.resp.code = 201

\* the url and title checks pass
ValidHead(data) ==
    /\ "url" \in DOMAIN data /\ "title" \in DOMAIN data
    /\ data.url # None /\ data.title # None
    /\ strip(data.url) # <<>> /\ strip(data.title) # <<>>

\* no entry of the queries list makes the handler throw
WellFormedAnnotation(a) ==
    AnnotationColumnsOk(Annotation(0,
        Get(a, "start_timestamp", DefaultTimestamp),
        Get(a, "end_timestamp", DefaultTimestamp), <<>>))

WellFormedQueries(data) ==
    \A i \in DOMAIN Get(data, "queries", <<>>) :
        LET item == data.queries[i]
        IN  "query_text" \in DOMAIN item =>
              /\ item.query_text # None
              /\ \A j \in DOMAIN Get(item, "annotations", <<>>) :
                    "notes" \in DOMAIN item.annotations[j] =>
                        WellFormedAnnotation(item.annotations[j])

StoredWithUrl(store, url) == {v \in store.videos : v.url = url}

----------------------------------------------------------------------------
\* C1: a submit_video whose url belongs to a stored Video succeeds with
\* video_existed = true, leaves the videos table as it was (same title,
\* description, topic and duration, no second row) and answers with the
\* stored record, whatever metadata the body carries.
C1_Case ==
    /\ Submitted
    /\ ValidHead(last.data)
    /\ WellFormedQueries(last.data)
    /\ StoredWithUrl(last.before, last.data.url) # {}

C1_ResubmitKeepsStoredVideo ==
    C1_Case =>
        /\ Succeeded
        /\ last.resp.video_existed
        /\ db.videos = last.before.videos
        /\ last.resp.video \in StoredWithUrl(last.before, last.data.url)

C1_Witness ==
    /\ C1_Case
    /\ Succeeded
    /\ last.resp.video.title # last.data.title
    /\ last.resp.video.description # Get(last.data, "description", <<>>)
    /\ last.resp.video.topic # Get(last.data, "topic", <<>>)

\* C2: at most one Video row exists for any url.
C2_OneVideoPerUrl ==
    \A v1, v2 \in db.videos : v1.url = v2.url => v1 = v2

C2_Witness ==
    /\ Batch /\ Succeeded
    /\ Len(last.data) >= 2
    /\ last.data[1].url = last.data[2].url
    /\ ~last.resp.results[1].video_existed
    /\ last.resp.results[2].video_existed
    /\ Cardinality(StoredWithUrl(db, last.data[1].url)) = 1

\* C3: no two Queries of one Video have the same trimmed query_text.
C3_NoDuplicateTrimmedText ==
    \A q1, q2 \in db.queries :
        (q1.video_id = q2.video_id
         /\ strip(q1.query_text) = strip(q2.query_text)) => q1 = q2

----------------------------------------------------------------------------
\* the entries of the queries list whose trimmed query_text is text
Occurrences(data, text) ==
    {i \in DOMAIN Get(data, "queries", <<>>) :
        /\ "query_text" \in DOMAIN data.queries[i]
        /\ data.queries[i].query_text # None
        /\ strip(data.queries[i].query_text) = text}

\* the annotation entries of a query entry that carry notes
NotesEntries(item) ==
    {j \in DOMAIN Get(item, "annotations", <<>>) :
        "notes" \in DOMAIN item.annotations[j]}

RECURSIVE SumNotes(_, _)
SumNotes(data, occ) ==
    IF occ = {} THEN 0
    ELSE LET i == CHOOSE i \in occ : TRUE
         IN  Cardinality(NotesEntries(data.queries[i])) + SumNotes(data, occ \ {i})

RepeatedTexts(data) ==
    {strip(data.queries[i].query_text) : i \in
        {i \in DOMAIN Get(data, "queries", <<>>) :
            /\ "query_text" \in DOMAIN data.queries[i]
            /\ data.queries[i].query_text # None
            /\ strip(data.queries[i].query_text) # <<>>
            /\ Cardinality(Occurrences(data, strip(data.queries[i].query_text))) >= 2}}

\* the texts the submission repeats and the Video did not have before
C4_Texts ==
    IF Submitted /\ Succeeded
    THEN {t \in RepeatedTexts(last.data) :
            ~\E q \in last.before.queries :
                q.video_id = last.resp.video.id /\ q.query_text = t}
    ELSE {}

\* C4: a submission that repeats a trimmed query_text creates one Query row
\* for it, and the annotations of all its occurrences are rows of that Query.
C4_RepeatedTextOneQuery ==
    \A t \in C4_Texts :
        LET created == {q \in db.queries \ last.before.queries :
                          q.video_id = last.resp.video.id /\ q.query_text = t}
            added == db.annotations \ last.before.annotations
        IN  /\ Cardinality(created) = 1
            /\ \A q \in created :
                 Cardinality({a \in added : a.query_id = q.id})
                   = SumNotes(last.data, Occurrences(last.data, t))

C4_Witness ==
    \E t \in C4_Texts :
        /\ SumNotes(last.data, Occurrences(last.data, t)) >= 2
        /\ \E i, j \in Occurrences(last.data, t) :
              last.data.queries[i].query_text # last.data.queries[j].query_text

\* C5: a submit_video that does not answer success leaves the committed
\* store as it was before the call.
C5_FailedSubmitChangesNothing ==
    (Submitted /\ ~Succeeded) => db = last.before

\* the call threw after it had flushed its new Video
C5_Witness ==
    /\ Submitted
    /\ last.resp.code = 500
    /\ last.flushed
    /\ ValidHead(last.data)
    /\ StoredWithUrl(last.before, last.data.url) = {}
    /\ db = last.before

\* C6: a batch rejected at one of its items commits nothing, and nothing it
\* had flushed stays in the session for a later request to commit.
C6_RejectedBatchChangesNothing ==
    (Batch /\ last.resp.code = 400) =>
        /\ db = last.before
        /\ sess = [view |-> db, unflushed |-> <<>>]

\* an item after the first was rejected, rows of earlier items were flushed
C6_Witness ==
    /\ Batch
    /\ last.resp.code = 400
    /\ last.resp.index >= 1
    /\ last.flushed
    /\ db = last.before

\* a batch of three whose second item has a blank title and is the item
\* the batch is rejected for
C7_Case ==
    /\ Batch
    /\ Len(last.data) = 3
    /\ last.resp.code = 400
    /\ last.resp.error = "Empty title"
    /\ ValidHead(last.data[1])
    /\ "url" \in DOMAIN last.data[2] /\ "title" \in DOMAIN last.data[2]
    /\ strip(last.data[2].title) = <<>>

\* C7 as claimed: the error names index 2.
C7_ErrorNamesIndexTwo == C7_Case => last.resp.index = 2

\* C7: the error names the title field and index 1, the zero-based index of
\* the second item.
C7_ErrorNamesIndexOne == C7_Case => last.resp.index = 1

C7_Witness == C7_Case /\ last.resp.index = 1 /\ last.flushed

----------------------------------------------------------------------------
\* the url is an http or https link
Remote(url) ==
    \E n \in {7, 8} :
        /\ Len(url) >= n
        /\ lower(SubSeq(url, 1, n)) \in {HttpPrefix, HttpsPrefix}

NewUrl == Submitted /\ ValidHead(last.data)
          /\ StoredWithUrl(last.before, last.data.url) = {}

NoVideoAdded == db.videos = last.before.videos

\* the value is an integer greater than 0 after int()
CoercesToPositive(x) == int(x).ok /\ int(x).n > 0

C8_Case ==
    /\ NewUrl
    /\ "duration" \in DOMAIN last.data
    /\ last.data.duration # JNull
    /\ ~CoercesToPositive(last.data.duration)

\* C8: a new url with a supplied duration that does not coerce to an integer
\* greater than 0 is rejected with InvalidDuration and adds no Video row.
C8_BadDurationIsInvalidDuration ==
    C8_Case =>
        /\ last.resp.code = 400
        /\ last.resp.error \in {"Invalid duration", "Invalid duration format"}
        /\ NoVideoAdded

C9_Case ==
    /\ NewUrl
    /\ Remote(last.data.url)
    /\ Get(last.data, "duration", JNull) = JNull

\* C9: a new remote url without duration is stored with the positive
\* duration the lookup returns, and is rejected with DurationUnavailable,
\* adding no Video row, when the lookup fails or returns nothing.
C9_LookupDecidesDuration ==
    C9_Case =>
        LET d == get_video_duration(last.info)
        IN  /\ (d.t = "int" /\ d.n > 0) =>
                  /\ Succeeded
                  /\ ~last.resp.video_existed
                  /\ \E v \in db.videos \ last.before.videos :
                        v.url = last.data.url /\ v.duration = d.n
            /\ d = JNull =>
                  /\ last.resp.code = 400
                  /\ last.resp.error = "Unable to fetch video duration"
                  /\ NoVideoAdded

C10_Case ==
    /\ NewUrl
    /\ ~Remote(last.data.url)
    /\ Get(last.data, "duration", JNull) = JNull

\* C10: a new url that is not remote and has no duration is rejected with
\* MissingDuration, the lookup is not invoked and no Video row is added,
\* whatever the collaborator would answer.
C10_LocalUrlNeedsDuration ==
    C10_Case =>
        /\ last.resp.code = 400
        /\ last.resp.error = "Missing video duration"
        /\ last.lookups = 0
        /\ NoVideoAdded

C10_Witness ==
    /\ C10_Case
    /\ "duration" \notin DOMAIN last.data
    /\ last.info = JInt(42)
    /\ last.resp.error = "Missing video duration"

----------------------------------------------------------------------------
\* the submissions of the last request: the body, or the items of the batch
SubmittedItems ==
    IF Submitted THEN <<last.data>> ELSE IF Batch THEN last.data ELSE <<>>

C11_Case ==
    /\ SubmittedItems # <<>>
    /\ \A i \in DOMAIN SubmittedItems :
          /\ ValidHead(SubmittedItems[i])
          /\ WellFormedQueries(SubmittedItems[i])
          /\ StoredWithUrl(last.before, SubmittedItems[i].url) # {}

\* C11: a submission (single or batch item) whose url belongs to a stored
\* Video succeeds whatever its duration field holds, never invokes the
\* duration lookup and leaves the stored videos, their duration included,
\* as they were.
C11_ExistingVideoSkipsDuration ==
    C11_Case =>
        /\ Succeeded
        /\ last.lookups = 0
        /\ db.videos = last.before.videos
        /\ Submitted => last.resp.video_existed
        /\ Batch => last.resp.existing_videos = Len(last.data)

C11_Witness ==
    /\ C11_Case
    /\ Batch
    /\ Get(last.data[1], "duration", JNull) = JStr(<<"x">>)
    /\ last.info = LookupRaises
    /\ Succeeded
    /\ \E v \in db.videos : v.url = last.data[1].url /\ v.duration = 10

----------------------------------------------------------------------------
(* The other mutation endpoints *)

Success(code) == [code |-> code, error |-> "", index |-> -1]
NotFound_aborts(tx) ==
    {[tx |-> rollback(tx), resp |-> ErrorResponse(500, "Server error", -1)]}

NotFound(tx) == {[tx |-> tx, resp |-> ErrorResponse(404, "Not found", -1)]}
ServerError(tx) ==
    {[tx |-> rollback(tx), resp |-> ErrorResponse(500, "Server error", -1)]}

\* Video.queries: the Query rows the relationship loads for a video
Video_queries(view, video) == {q \in view.queries : q.video_id = video.id}

Query_annotations_none(view, qs) == {}

\* Query.annotations, for each query of qs
Query_annotations(view, qs) ==
    {a \in view.annotations : \E q \in qs : a.query_id = q.id}

\* db.session.delete(video) with cascade='all, delete-orphan' on both
\* relationships
session_delete_video(tx, video) ==
    LET qs == Video_queries(tx.view, video)
    IN  [tx EXCEPT !.view =
            [videos |-> @.videos \ {video},
             queries |-> @.queries \ qs,
             annotations |-> @.annotations \ Query_annotations(tx.view, qs)]]

session_delete_query_only(tx, query) ==
    [tx EXCEPT !.view.queries = @ \ {query}]

\* db.session.delete(query)
session_delete_query(tx, query) ==
    [tx EXCEPT !.view.queries = @ \ {query},
               !.view.annotations = @ \ Query_annotations(tx.view, {query})]

\* DELETE /api/videos/<video_id>
delete_video(tx0, video_id) ==
    IF ~\E v \in tx0.view.videos : v.id = video_id THEN NotFound(tx0)
    ELSE LET tx1 == commit(session_delete_video(tx0, VideoRow(tx0.view, video_id)))
         IN  IF tx1.raised THEN ServerError(tx1)
             ELSE {[tx |-> tx1, resp |-> Success(200)]}

\* DELETE /api/queries/<query_id>
delete_query(tx0, query_id) ==
    IF ~\E q \in tx0.view.queries : q.id = query_id THEN NotFound(tx0)
    ELSE LET tx1 == commit(session_delete_query(tx0, QueryRow(tx0.view, query_id)))
         IN  IF tx1.raised THEN ServerError(tx1)
             ELSE {[tx |-> tx1, resp |-> Success(200)]}

AnnotationRow(view, id) == CHOOSE a \in view.annotations : a.id = id

\* DELETE /api/annotations/<annotation_id>
delete_annotation(tx0, annotation_id) ==
    IF ~\E a \in tx0.view.annotations : a.id = annotation_id THEN NotFound(tx0)
    ELSE LET annotation == AnnotationRow(tx0.view, annotation_id)
             tx1 == commit([tx0 EXCEPT !.view.annotations = @ \ {annotation}])
         IN  IF tx1.raised THEN ServerError(tx1)
             ELSE {[tx |-> tx1, resp |-> Success(200)]}

AllowedStatus_any == {"pending", "finished", "archived"}

\* the statuses update_query_status accepts
AllowedStatus == {"pending", "finished"}

update_query_status_rollup(tx0, query_id, data) ==
    IF ~\E q \in tx0.view.queries : q.id = query_id THEN NotFound(tx0)
    ELSE IF "status" \notin DOMAIN data
    THEN {[tx |-> tx0, resp |-> ErrorResponse(400, "Missing status", -1)]}
    ELSE IF data.status \notin AllowedStatus
    THEN {[tx |-> tx0, resp |-> ErrorResponse(400, "Invalid status", -1)]}
    ELSE
    LET query == QueryRow(tx0.view, query_id)
        updated == [query EXCEPT !.status = data.status]
        tx1 == commit([tx0 EXCEPT
                   !.view.queries = (@ \ {query}) \cup {updated},
                   !.view.videos =
                       {IF v.id = query.video_id
                        THEN [v EXCEPT !.status = data.status] ELSE v : v \in @}])
    IN  IF tx1.raised THEN ServerError(tx1)
        ELSE {[tx |-> tx1, resp |-> Success(200) @@ [query |-> updated]]}

\* PUT /api/queries/<query_id>/status
update_query_status(tx0, query_id, data) ==
    IF ~\E q \in tx0.view.queries : q.id = query_id THEN NotFound(tx0)
    ELSE IF "status" \notin DOMAIN data
    THEN {[tx |-> tx0, resp |-> ErrorResponse(400, "Missing status", -1)]}
    ELSE IF data.status \notin AllowedStatus
    THEN {[tx |-> tx0, resp |-> ErrorResponse(400, "Invalid status", -1)]}
    ELSE
    LET query == QueryRow(tx0.view, query_id)
        updated == [query EXCEPT !.status = data.status]
        tx1 == commit([tx0 EXCEPT !.view.queries = (@ \ {query}) \cup {updated}])
    IN  IF tx1.raised THEN ServerError(tx1)
        ELSE {[tx |-> tx1, resp |-> Success(200) @@ [query |-> updated]]}

\* POST /api/queries/<query_id>/annotations
create_annotation(tx0, query_id, data) ==
    IF ~\E q \in tx0.view.queries : q.id = query_id THEN NotFound(tx0)
    ELSE IF data = EmptyObj \/ "notes" \notin DOMAIN data
    THEN {[tx |-> tx0, resp |-> ErrorResponse(400, "Missing description", -1)]}
    ELSE
    LET annotation == Annotation(query_id,
                          Get(data, "start_timestamp", DefaultTimestamp),
                          Get(data, "end_timestamp", DefaultTimestamp),
                          data.notes)
        tx1 == commit(AddAnnotation(tx0, annotation))
    IN  IF tx1.raised THEN ServerError(tx1)
        ELSE {[tx |-> tx1,
               resp |-> Success(201) @@
                        [annotation |-> AnnotationRow(tx1.view, tx0.seq.a)]]}

update_annotation_all_keys(tx0, annotation_id, data) ==
    IF ~\E a \in tx0.view.annotations : a.id = annotation_id THEN NotFound(tx0)
    ELSE
    LET annotation == AnnotationRow(tx0.view, annotation_id)
        updated ==
            [annotation EXCEPT
                !.query_id = Get(data, "query_id", @),
                !.start_timestamp = Get(data, "start_timestamp", @),
                !.end_timestamp = Get(data, "end_timestamp", @),
                !.notes = Get(data, "notes", @)]
        tx1 == commit([tx0 EXCEPT
                   !.view.annotations = (@ \ {annotation}) \cup {updated}])
    IN  IF ~AnnotationColumnsOk(updated) \/ tx1.raised THEN ServerError(tx0)
        ELSE {[tx |-> tx1, resp |-> Success(200) @@ [annotation |-> updated]]}

\* PUT /api/annotations/<annotation_id>
update_annotation(tx0, annotation_id, data) ==
    IF ~\E a \in tx0.view.annotations : a.id = annotation_id THEN NotFound(tx0)
    ELSE
    LET annotation == AnnotationRow(tx0.view, annotation_id)
        updated ==
            [annotation EXCEPT
                !.start_timestamp = Get(data, "start_timestamp", @),
                !.end_timestamp = Get(data, "end_timestamp", @),
                !.notes = Get(data, "notes", @)]
        tx1 == commit([tx0 EXCEPT
                   !.view.annotations = (@ \ {annotation}) \cup {updated}])
    IN  IF ~AnnotationColumnsOk(updated) \/ tx1.raised THEN ServerError(tx0)
        ELSE {[tx |-> tx1, resp |-> Success(200) @@ [annotation |-> updated]]}

----------------------------------------------------------------------------
(* All mutation endpoints together, on few request bodies *)

StatusBodies ==
    {EmptyObj} \cup
    {[status |-> x] : x \in {"pending", "finished", "unverified", "verified",
                              "archived"}}

AnnotationBodies == {EmptyObj, AnnN, AnnNoNotes, AnnLong}

CrudBodies ==
    { [url |-> UrlA, title |-> TitleT, duration |-> JInt(42),
       queries |-> <<[query_text |-> TextA, annotations |-> <<AnnN>>],
                     [query_text |-> TextB, annotations |-> <<AnnN>>]>>],
      [url |-> UrlB, title |-> TitleU, duration |-> JInt(42),
       queries |-> <<[query_text |-> TextA, annotations |-> <<AnnN>>]>>],
      [url |-> UrlB, title |-> Blank, duration |-> JInt(42)] }

CrudBatches == {<<b>> : b \in CrudBodies} \cup {<<>>}

CrudQueryBodies == {[query_text |-> TextA], [query_text |-> Blank]}

DeleteVideo ==
    \E video_id \in 1..MaxVideoId :
        \E o \in delete_video(Begin(db, sess, seq), video_id) :
            Finish(o, [op |-> "delete_video", id |-> video_id])

DeleteQuery ==
    \E query_id \in 1..MaxQueryId :
        \E o \in delete_query(Begin(db, sess, seq), query_id) :
            Finish(o, [op |-> "delete_query", id |-> query_id])

DeleteAnnotation ==
    \E annotation_id \in 1..MaxAnnotationId :
        \E o \in delete_annotation(Begin(db, sess, seq), annotation_id) :
            Finish(o, [op |-> "delete_annotation", id |-> annotation_id])

UpdateQueryStatus ==
    \E query_id \in 1..MaxQueryId, data \in StatusBodies :
        \E o \in update_query_status(Begin(db, sess, seq), query_id, data) :
            Finish(o, [op |-> "update_query_status", id |-> query_id,
                       data |-> data])

CreateAnnotation ==
    \E query_id \in 1..MaxQueryId, data \in AnnotationBodies :
        \E o \in create_annotation(Begin(db, sess, seq), query_id, data) :
            Finish(o, [op |-> "create_annotation", id |-> query_id,
                       data |-> data])

UpdateAnnotationOf(bodies) ==
    \E annotation_id \in 1..MaxAnnotationId, data \in bodies :
        \E o \in update_annotation(Begin(db, sess, seq), annotation_id, data) :
            Finish(o, [op |-> "update_annotation", id |-> annotation_id,
                       data |-> data])

UpdateAnnotation == UpdateAnnotationOf(AnnotationBodies)

NextCrud ==
    \/ SubmitVideo(CrudBodies, Answer42)
    \/ SubmitVideos(CrudBatches, Answer42)
    \/ CreateQueryOf(CrudQueryBodies)
    \/ UpdateQueryOf(CrudQueryBodies)
    \/ DeleteVideo
    \/ DeleteQuery
    \/ DeleteAnnotation
    \/ UpdateQueryStatus
    \/ CreateAnnotation
    \/ UpdateAnnotation

SpecCrud == Init /\ [][NextCrud]_vars

----------------------------------------------------------------------------
Deleted(op) == last.op = op /\ last.resp.code = 200

\* the rows of a store that hang under video id v
QueriesUnder(store, v) == {q \in store.queries : q.video_id = v}
AnnotationsUnder(store, v) ==
    {a \in store.annotations :
        \E q \in QueriesUnder(store, v) : a.query_id = q.id}

\* C12: after a successful delete_video(v) no Query has video_id = v, no
\* Annotation refers to a Query that belonged to v, and the other Videos,
\* their Queries and their Annotations are as before.
C12_DeleteVideoCascades ==
    Deleted("delete_video") =>
        LET v == last.id
            qs == QueriesUnder(last.before, v)
        IN  /\ ~\E x \in db.videos : x.id = v
            /\ ~\E q \in db.queries : q.video_id = v
            /\ ~\E a \in db.annotations : \E q \in qs : a.query_id = q.id
            /\ db.videos = {x \in last.before.videos : x.id # v}
            /\ db.queries = last.before.queries \ qs
            /\ db.annotations =
                   last.before.annotations \ AnnotationsUnder(last.before, v)

C12_Witness ==
    /\ Deleted("delete_video")
    /\ Cardinality(QueriesUnder(last.before, last.id)) = 2
    /\ Cardinality(AnnotationsUnder(last.before, last.id)) = 2
    /\ db = EmptyStore

\* C13: in every reachable state every Query's video_id is the id of a
\* stored Video and every Annotation's query_id is the id of a stored Query.
C13_NoOrphans ==
    /\ \A q \in db.queries : \E v \in db.videos : v.id = q.video_id
    /\ \A a \in db.annotations : \E q \in db.queries : q.id = a.query_id

C13_Witness ==
    /\ Deleted("delete_query")
    /\ \E a \in last.before.annotations : a.query_id = last.id
    /\ db.videos # {}
    /\ C13_NoOrphans

----------------------------------------------------------------------------
\* update_query_status was asked to set a status on a stored Query
StatusRequested ==
    /\ last.op = "update_query_status"
    /\ \E q \in last.before.queries : q.id = last.id
    /\ "status" \in DOMAIN last.data

\* C14: update_query_status with a status outside the set the handler
\* allows ("archived", for one) is rejected with InvalidStatus and leaves
\* the Query's status and every other row as they were.
C14_InvalidStatusChangesNothing ==
    (StatusRequested /\ last.data.status \notin {"pending", "finished"}) =>
        /\ last.resp.code = 400
        /\ last.resp.error = "Invalid status"
        /\ db = last.before

C14_Witness ==
    /\ StatusRequested
    /\ last.data.status = "archived"
    /\ last.resp.error = "Invalid status"
    /\ \E q \in db.queries : q.id = last.id /\ q.status = "finished"

\* C15: update_query_status(queryId, "verified") on a stored Query succeeds
\* and leaves the Query verified; applied to a Query that is already
\* verified it succeeds again and changes nothing.
C15_VerifiedIsAccepted ==
    (StatusRequested /\ last.data.status = "verified") =>
        /\ last.resp.code = 200
        /\ \E q \in db.queries : q.id = last.id /\ q.status = "verified"
        /\ (\E q \in last.before.queries :
                q.id = last.id /\ q.status = "verified") => db = last.before

----------------------------------------------------------------------------
(* migrate_schema.py.  A table is its set of column names and its rows,    *)
(* each row a function from the column names to SQL values; a TEXT value   *)
(* is a sequence of characters, NULL is NULL.                              *)

MaxRuns == 2

Negative == <<"n","e","g","a","t","i","v","e">>
Unannotated == <<"u","n">>
Annotated == <<"a","n">>

\* '["' || value || '"]'
JsonArrayText(value) == <<"[", "\"">> \o value \o <<"\"", "]">>

COALESCE(value, default) == IF value = NULL THEN default ELSE value

column_exists(table, column_name) == column_name \in table.columns

\* ALTER TABLE ... ADD COLUMN c ... DEFAULT d: existing rows get the default
AddColumn(table, c, default) ==
    [columns |-> table.columns \cup {c},
     rows |-> {[k \in DOMAIN r \cup {c} |-> IF k = c THEN default ELSE r[k]]
               : r \in table.rows}]

\* ALTER TABLE ... DROP COLUMN c
DropColumn(table, c) ==
    [columns |-> table.columns \ {c},
     rows |-> {[k \in DOMAIN r \ {c} |-> r[k]] : r \in table.rows}]

\* lines 76-88 and 93-105: the legacy column becomes query_types
ConvertLegacy(queries, legacy) ==
    LET added == AddColumn(queries, "query_types", JsonArrayText(Negative))
        set == [added EXCEPT !.rows =
                   {[r EXCEPT !["query_types"] =
                        JsonArrayText(COALESCE(r[legacy], Negative))] : r \in @}]
    IN  DropColumn(set, legacy)

migrate_status_finished_to_pending(queries) ==
    LET first == {IF r["status"] = "pending"
                  THEN [r EXCEPT !["status"] = "unverified"] ELSE r
                  : r \in queries.rows}
    IN  [queries EXCEPT !.rows =
            {IF r["status"] = "finished"
             THEN [r EXCEPT !["status"] = "pending"] ELSE r : r \in first}]

migrate_status_pending_only(queries) ==
    [queries EXCEPT !.rows =
        {IF r["status"] = "pending"
         THEN [r EXCEPT !["status"] = "unverified"] ELSE r : r \in @}]

\* lines 128-141: the two UPDATEs of status, one after the other
migrate_status(queries) ==
    LET first == {IF r["status"] = "pending"
                  THEN [r EXCEPT !["status"] = "unverified"] ELSE r
                  : r \in queries.rows}
    IN  [queries EXCEPT !.rows =
            {IF r["status"] = "finished"
             THEN [r EXCEPT !["status"] = "verified"] ELSE r : r \in first}]

\* lines 145-149: NULL or empty query_types get the default
default_query_types(queries) ==
    [queries EXCEPT !.rows =
        {IF r["query_types"] = NULL \/ r["query_types"] = <<>>
         THEN [r EXCEPT !["query_types"] = JsonArrayText(Negative)] ELSE r
         : r \in @}]

migrate_queries_table(queries) ==
    LET has_tag_column == column_exists(queries, "tag")
        has_query_type_column == column_exists(queries, "query_type")
        has_query_types_column == column_exists(queries, "query_types")
        columns ==
            IF has_tag_column /\ ~has_query_type_column /\ ~has_query_types_column
            THEN ConvertLegacy(queries, "tag")
            ELSE IF has_query_type_column /\ ~has_query_types_column
            THEN ConvertLegacy(queries, "query_type")
            ELSE IF ~has_query_types_column
            THEN AddColumn(queries, "query_types", JsonArrayText(Negative))
            ELSE queries
    IN  default_query_types(migrate_status(columns))

migrate_annotations_table(annotations) ==
    LET added == IF ~column_exists(annotations, "is_annotated")
                 THEN AddColumn(annotations, "is_annotated", Unannotated)
                 ELSE annotations
    IN  [added EXCEPT !.rows =
            {IF r["is_annotated"] = NULL
             THEN [r EXCEPT !["is_annotated"] = Unannotated] ELSE r : r \in @}]

\* main(): nothing happens unless the operator answers y
main(database, response) ==
    IF lower(strip(response)) # <<"y">> THEN database
    ELSE [queries |-> migrate_queries_table(database.queries),
          annotations |-> migrate_annotations_table(database.annotations),
          runs |-> database.runs + 1]

\* databases the migration may find: every combination of the legacy
\* columns, one row with any values in them and optionally a second row
LegacyColumns == {"tag", "query_type", "query_types"}
LegacyValues == {NULL, <<>>, <<"x">>}
StoredStatuses == {"pending", "finished", "unverified", "verified", "archived"}
AnnotatedValues == {NULL, Annotated, Unannotated}

QueryRows(columns) ==
    { [c \in columns |->
          IF c = "id" THEN 1
          ELSE IF c = "status" THEN st
          ELSE IF c = "query_types" /\ v[c] # NULL /\ v[c] # <<>>
          THEN JsonArrayText(v[c])
          ELSE v[c]]
      : st \in StoredStatuses, v \in [LegacyColumns -> LegacyValues] }

SecondQueryRow(columns) ==
    [c \in columns |->
        IF c = "id" THEN 2 ELSE IF c = "status" THEN "finished" ELSE NULL]

QueryTables ==
    UNION { LET columns == {"id", "status"} \cup S
            IN  {TableOf(columns, {r}) : r \in QueryRows(columns)} \cup
                {TableOf(columns, {r, SecondQueryRow(columns)})
                   : r \in QueryRows(columns)}
            : S \in SUBSET LegacyColumns }

AnnotationTables ==
    {TableOf({"id"}, {[c \in {"id"} |-> 1]})} \cup
    {TableOf({"id", "is_annotated"},
             {[c \in {"id", "is_annotated"} |-> IF c = "id" THEN 1 ELSE x]})
       : x \in AnnotatedValues}

LegacyDatabases ==
    {[queries |-> q, annotations |-> a, runs |-> 0]
       : q \in QueryTables, a \in AnnotationTables}

\* what the operator types at the prompt
Responses == {<<"y">>, <<" ", "Y">>, <<"n">>, <<>>}

InitMigrate ==
    /\ annotator_not_null = TRUE
    /\ pg \in LegacyDatabases
    /\ running = [p \in Procs |-> Idle]
    /\ db = EmptyStore
    /\ clock = InitialClock(db)
    /\ sess = [view |-> db, unflushed |-> <<>>]
    /\ seq = [v |-> 1, q |-> 1, a |-> 1]
    /\ last = NoRequest

\* python migrate_schema.py
Migrate ==
    \E response \in Responses :
        /\ pg.runs < MaxRuns
        /\ pg' = main(pg, response)
        /\ last' = [op |-> "migrate", response |-> response, before |-> pg,
                    resp |-> ErrorResponse(0, "", -1), lookups |-> 0,
                    flushed |-> FALSE]
        /\ UNCHANGED <<db, sess, seq, annotator_not_null, clock, running>>

SpecMigrate == InitMigrate /\ [][Migrate]_vars

----------------------------------------------------------------------------
\* the last step ran the migration (the operator answered y)
Migrated == last.op = "migrate" /\ pg.runs = last.before.runs + 1

RowWithId(table, id) == CHOOSE r \in table.rows : r["id"] = id

\* C16: a migration run on a database an earlier run produced changes
\* nothing: same columns and same values in every row of queries and
\* annotations.
C16_SecondRunChangesNothing ==
    (Migrated /\ last.before.runs >= 1) =>
        /\ pg.queries = last.before.queries
        /\ pg.annotations = last.before.annotations

C16_Witness ==
    /\ Migrated
    /\ pg.runs = 2
    /\ pg.queries.columns = {"id", "status", "tag", "query_types"}
    /\ \E r \in pg.queries.rows : r["status"] = "verified"
    /\ pg.queries = last.before.queries

\* the one-element list a JSON text encodes, <<>> if it encodes none
JsonList1(text) ==
    IF /\ text # NULL /\ Len(text) >= 4
       /\ SubSeq(text, 1, 2) = <<"[", "\"">>
       /\ SubSeq(text, Len(text) - 1, Len(text)) = <<"\"", "]">>
    THEN <<SubSeq(text, 3, Len(text) - 2)>>
    ELSE <<>>

\* the legacy column of a table that has exactly one, "" if it has none
LegacyColumn(table) ==
    IF "tag" \in table.columns /\ "query_type" \notin table.columns THEN "tag"
    ELSE IF "query_type" \in table.columns /\ "tag" \notin table.columns
    THEN "query_type"
    ELSE ""

C17_Case ==
    /\ Migrated
    /\ "query_types" \notin last.before.queries.columns
    /\ {"tag", "query_type"} \ last.before.queries.columns # {}

\* C17: after the migration a Query whose legacy tag/query_type value was
\* absent, NULL or empty has query_types = ["negative"], and a Query with
\* a non-empty legacy value x has query_types = [x].
C17_LegacyValueBecomesList ==
    C17_Case =>
        \A r \in last.before.queries.rows :
            LET legacy == LegacyColumn(last.before.queries)
                x == IF legacy = "" THEN NULL ELSE r[legacy]
                after == RowWithId(pg.queries, r["id"])
            IN  JsonList1(after["query_types"]) =
                    IF x = NULL \/ x = <<>> THEN <<Negative>> ELSE <<x>>

\* C18: after the migration no Query is pending or finished: what was
\* pending is unverified, what was finished is verified, and any other
\* status is kept.
C18_StatusConverted ==
    Migrated =>
        /\ \A r \in pg.queries.rows : r["status"] \notin {"pending", "finished"}
        /\ \A r \in last.before.queries.rows :
              RowWithId(pg.queries, r["id"])["status"] =
                  IF r["status"] = "pending" THEN "unverified"
                  ELSE IF r["status"] = "finished" THEN "verified"
                  ELSE r["status"]

C18_Witness ==
    /\ Migrated
    /\ \E r \in last.before.queries.rows : r["status"] = "pending"
    /\ \E r \in last.before.queries.rows : r["status"] = "finished"
    /\ \E r \in pg.queries.rows : r["status"] = "unverified"
    /\ \E r \in pg.queries.rows : r["status"] = "verified"

----------------------------------------------------------------------------
\* the query entries of a body that the ingest loop processes
ProcessedEntries(data) ==
    {i \in DOMAIN Get(data, "queries", <<>>) :
        /\ "query_text" \in DOMAIN data.queries[i]
        /\ data.queries[i].query_text # None
        /\ strip(data.queries[i].query_text) # <<>>}

ProcessedTexts(data) ==
    {strip(data.queries[i].query_text) : i \in ProcessedEntries(data)}

AddedAnnotations == db.annotations \ last.before.annotations

\* the Queries a text resolves to under the video of the response
ResolvedQueries(t) ==
    {q \in db.queries : q.video_id = last.resp.video.id /\ q.query_text = t}

\* row a is what annotation entry e makes under one of the queries qs
MadeFrom(a, e, qs) ==
    /\ \E q \in qs : a.query_id = q.id
    /\ a.notes = e.notes
    /\ a.start_timestamp = Get(e, "start_timestamp", DefaultTimestamp)
    /\ a.end_timestamp = Get(e, "end_timestamp", DefaultTimestamp)

\* C19: a successful submit_video keeps every Annotation row it found, and
\* for every text it processes adds, under the Query that text resolves to,
\* as many rows as the entries of that text carry notes, each with the
\* entry's notes and its timestamps or 00:00:00.
C19_AnnotationsAppendOnly ==
    (Submitted /\ Succeeded) =>
        /\ last.before.annotations \subseteq db.annotations
        /\ \A t \in ProcessedTexts(last.data) :
              Cardinality({a \in AddedAnnotations :
                             \E q \in ResolvedQueries(t) : a.query_id = q.id})
                = SumNotes(last.data, Occurrences(last.data, t))
        /\ \A a \in AddedAnnotations :
              \E i \in ProcessedEntries(last.data) :
                  \E j \in NotesEntries(last.data.queries[i]) :
                      MadeFrom(a, last.data.queries[i].annotations[j],
                          ResolvedQueries(strip(last.data.queries[i].query_text)))

C19_Witness ==
    /\ Submitted /\ Succeeded
    /\ last.resp.queries_created = 1
    /\ \E a, b \in AddedAnnotations :
          /\ a.id # b.id
          /\ [a EXCEPT !.id = 0] = [b EXCEPT !.id = 0]
          /\ a.start_timestamp = DefaultTimestamp

\* C20: on a successful submit_video queries_created is the number of
\* Query rows that exist after the call and not before it, and
\* annotations_created the number of Annotation rows the call added.
C20_CountsAreRowsAdded ==
    (Submitted /\ Succeeded) =>
        /\ last.resp.queries_created =
               Cardinality(db.queries \ last.before.queries)
        /\ last.resp.annotations_created = Cardinality(AddedAnnotations)

C20_Witness ==
    /\ Submitted /\ Succeeded
    /\ last.resp.video_existed
    /\ last.resp.queries_created = 0
    /\ last.resp.annotations_created = 1
    /\ Cardinality(ProcessedEntries(last.data)) = 1
    /\ \E i \in ProcessedEntries(last.data) :
          Cardinality(DOMAIN Get(last.data.queries[i], "annotations", <<>>)) = 2

----------------------------------------------------------------------------
\* C21: on a successful batch new_videos + existing_videos is the number of
\* items, new_videos the number of Video rows the batch added, and the two
\* totals are the sums of the per-item counts and the numbers of Query and
\* Annotation rows added.
C21_BatchSummaryCountsRows ==
    (Batch /\ Succeeded) =>
        /\ last.resp.new_videos + last.resp.existing_videos = Len(last.data)
        /\ last.resp.videos_processed = Len(last.data)
        /\ last.resp.new_videos =
               Cardinality(db.videos \ last.before.videos)
        /\ last.resp.total_queries_created =
               SumOf(last.resp.results, "queries_created")
        /\ last.resp.total_queries_created =
               Cardinality(db.queries \ last.before.queries)
        /\ last.resp.total_annotations_created =
               SumOf(last.resp.results, "annotations_created")
        /\ last.resp.total_annotations_created =
               Cardinality(db.annotations \ last.before.annotations)

C21_Witness ==
    /\ Batch /\ Succeeded
    /\ Len(last.data) >= 2
    /\ last.data[1].url = last.data[2].url
    /\ last.resp.new_videos = 1
    /\ last.resp.existing_videos = Len(last.data) - 1
    /\ last.resp.total_queries_created = 1
    /\ last.resp.total_annotations_created = 2

----------------------------------------------------------------------------
(* A batch submitted twice in a row *)

TwiceItems ==
    { [url |-> UrlA, title |-> TitleU,
       queries |-> <<[query_text |-> TextA, annotations |-> <<AnnN>>],
                     [query_text |-> TextAPadded]>>],
      [url |-> UrlB, title |-> TitleT, duration |-> JInt(42),
       queries |-> <<[query_text |-> TextB]>>],
      [url |-> UrlB, title |-> TitleT, duration |-> JStr(<<"x">>)] }

TwiceBatches == SeqsUpTo(TwiceItems, 2)

TwiceAnswers == {LookupRaises, JInt(42)}

\* the client sends the batch it has just sent successfully once more
Resubmit ==
    /\ Batch /\ Succeeded
    /\ "again" \notin DOMAIN last
    /\ \E info \in TwiceAnswers :
          \E o \in submit_multiple_videos(Begin(db, sess, seq), last.data, info,
                                          annotator_not_null) :
              Finish(o, [op |-> "submit_videos", data |-> last.data,
                         info |-> info, again |-> TRUE])

NextTwice ==
    \/ SubmitVideos(TwiceBatches, TwiceAnswers)
    \/ CreateQueryOf(QueryBodies)
    \/ Resubmit

SpecTwice == Init /\ [][NextTwice]_vars

Resubmitted == Batch /\ "again" \in DOMAIN last

\* C22: a batch submitted again right after it succeeded succeeds, creates
\* no Video row and no Query row, reports new_videos = 0 and
\* total_queries_created = 0 and leaves the videos and queries tables as
\* they were; only annotations are added.
C22_SecondBatchAddsOnlyAnnotations ==
    Resubmitted =>
        /\ Succeeded
        /\ last.resp.new_videos = 0
        /\ last.resp.total_queries_created = 0
        /\ db.videos = last.before.videos
        /\ db.queries = last.before.queries
        /\ last.before.annotations \subseteq db.annotations

C22_Witness ==
    /\ Resubmitted /\ Succeeded
    /\ Len(last.data) = 2
    /\ last.data[1].url # last.data[2].url
    /\ last.info = LookupRaises
    /\ last.resp.existing_videos = 2
    /\ last.resp.total_annotations_created = 1
    /\ Cardinality(db.queries) = 2

----------------------------------------------------------------------------
DeleteOps == {"delete_video", "delete_query", "delete_annotation"}

RowsOf(store, op) ==
    IF op = "delete_video" THEN store.videos
    ELSE IF op = "delete_query" THEN store.queries
    ELSE store.annotations

\* the last request was a delete of an id no row has
DeletedNothing ==
    /\ last.op \in DeleteOps
    /\ ~\E r \in RowsOf(last.before, last.op) : r.id = last.id

\* a delete sent now for an id that exists answers 200
DeletesStillSucceed ==
    LET tx == Begin(db, sess, seq)
    IN  /\ \A v \in db.videos :
              \A o \in delete_video(tx, v.id) : o.resp.code = 200
        /\ \A q \in db.queries :
              \A o \in delete_query(tx, q.id) : o.resp.code = 200
        /\ \A a \in db.annotations :
              \A o \in delete_annotation(tx, a.id) : o.resp.code = 200

\* C23: delete_video, delete_query and delete_annotation on an id that does
\* not resolve answer NotFound and leave the store unchanged, and a delete
\* of an existing id sent afterwards succeeds.
C23_DeleteOfMissingIdIsNotFound ==
    DeletedNothing =>
        /\ last.resp.code = 404
        /\ last.resp.error = "Not found"
        /\ db = last.before
        /\ sess = [view |-> db, unflushed |-> <<>>]
        /\ DeletesStillSucceed

C23_Witness ==
    /\ DeletedNothing
    /\ last.op = "delete_query"
    /\ last.resp.code = 404
    /\ db.videos # {} /\ db.queries # {} /\ db.annotations # {}

----------------------------------------------------------------------------
\* the item the last ingest request stopped at, or its only item
CheckedItem ==
    IF Batch /\ last.resp.index >= 0 THEN last.data[last.resp.index + 1]
    ELSE last.data

IngestChecked ==
    \/ Submitted
    \/ Batch /\ last.resp.code = 400 /\ last.resp.index >= 0

Rejected(error) == last.resp.code = 400 /\ last.resp.error = error

\* C24 as stated: both url checks come before any title check, so a blank
\* url with a missing title is rejected with the url's EmptyField error.
C24_BlankUrlBeforeMissingTitle ==
    (/\ IngestChecked
     /\ "url" \in DOMAIN CheckedItem
     /\ CheckedItem.url # None
     /\ strip(CheckedItem.url) = <<>>
     /\ "title" \notin DOMAIN CheckedItem) => Rejected("Empty URL")

\* C24 amended: the checks are made in the order url present, title
\* present, url non-blank, title non-blank, each rejecting at once, and all
\* four come before the duration is resolved.
C24_PresenceThenBlankThenDuration ==
    IngestChecked =>
        LET item == CheckedItem
        IN  IF "url" \notin DOMAIN item THEN Rejected("Missing video URL")
            ELSE IF "title" \notin DOMAIN item
            THEN Rejected("Missing video title")
            ELSE IF item.url = None THEN last.resp.code = 500
            ELSE IF strip(item.url) = <<>> THEN Rejected("Empty URL")
            ELSE IF item.title = None THEN last.resp.code = 500
            ELSE IF strip(item.title) = <<>>
            THEN Rejected("Empty title") /\ last.lookups = 0
            ELSE ~(last.resp.code = 400 /\ last.resp.error \in
                     {"Missing video URL", "Missing video title", "Empty URL",
                      "Empty title"})

C24_Witness ==
    /\ Submitted
    /\ last.data = [url |-> Blank]
    /\ Rejected("Missing video title")

----------------------------------------------------------------------------
(* Submissions whose queries list holds entries the loop skips *)

SkipItems ==
    { [annotations |-> <<AnnN>>],
      [query_text |-> Blank, annotations |-> <<AnnN>>],
      [query_text |-> TextA, annotations |-> <<AnnN>>],
      [query_text |-> TextB] }

SkipBodies ==
    { [url |-> u, title |-> TitleT, duration |-> JInt(42), queries |-> qs] :
        u \in {UrlA, UrlB}, qs \in SeqsUpTo(SkipItems, MaxQueryItems) }

NextSkip == SubmitVideo(SkipBodies, Answer42)

SpecSkip == Init /\ [][NextSkip]_vars

\* nothing but white space
IsBlank(text) == \A i \in DOMAIN text : text[i] \in Whitespace

\* a query entry without query_text, or whose text is blank after trimming
Skipped(item) ==
    \/ "query_text" \notin DOMAIN item
    \/ item.query_text # None /\ IsBlank(item.query_text)

\* the body without the entries that are skipped
WithoutSkipped(data) ==
    [data EXCEPT !.queries = SelectSeq(@, LAMBDA item : ~Skipped(item))]

\* what a client and the database see of an outcome
Observed(o) == [resp |-> o.resp, committed |-> o.tx.committed]

SkippedEntries ==
    IF Submitted
    THEN {i \in DOMAIN Get(last.data, "queries", <<>>) :
            Skipped(last.data.queries[i])}
    ELSE {}

\* C25: a query entry whose query_text is missing or blank after trimming
\* is skipped without error.  In every reachable state a submission
\* answers and commits exactly what the same submission without those
\* entries does; and after a successful submission that held such entries
\* no Query has a blank text and the rows added are those of the other
\* entries.
C25_BlankEntriesAreSkipped ==
    /\ \A data \in SkipBodies :
          LET tx == Begin(db, sess, seq)
          IN  {Observed(o) : o \in submit_video_url(tx, data, JInt(42),
                                                    annotator_not_null)}
            = {Observed(o) : o \in submit_video_url(tx, WithoutSkipped(data),
                                                    JInt(42), annotator_not_null)}
    /\ (Succeeded /\ SkippedEntries # {}) =>
          /\ \A q \in db.queries : ~IsBlank(q.query_text)
          /\ \A q \in db.queries \ last.before.queries :
                q.query_text \in ProcessedTexts(last.data)
          /\ \A t \in ProcessedTexts(last.data) : ResolvedQueries(t) # {}
          /\ last.resp.annotations_created = Cardinality(AddedAnnotations)
          /\ \A a \in AddedAnnotations :
                \E q \in db.queries :
                    q.id = a.query_id /\ q.query_text \in ProcessedTexts(last.data)

C25_Witness ==
    /\ Succeeded
    /\ SkippedEntries = {1}
    /\ "query_text" \notin DOMAIN last.data.queries[1]
    /\ ProcessedEntries(last.data) = {2}
    /\ last.resp.queries_created = 1
    /\ last.resp.annotations_created = 1

----------------------------------------------------------------------------
StatusUpdated == last.op = "update_query_status" /\ last.resp.code = 200

\* C26: a successful update_query_status changes the status of the target
\* Query and nothing else: its other fields, the other Queries, every
\* Annotation and every Video, the Video's status included, are unchanged.
C26_StatusUpdateTouchesOnlyStatus ==
    StatusUpdated =>
        LET target == CHOOSE q \in last.before.queries : q.id = last.id
        IN  /\ db.videos = last.before.videos
            /\ db.annotations = last.before.annotations
            /\ db.queries = (last.before.queries \ {target})
                               \cup {[target EXCEPT !.status = last.data.status]}

C26_Witness ==
    /\ StatusUpdated
    /\ last.data.status = "finished"
    /\ \E q \in last.before.queries : q.id = last.id /\ q.status = "pending"
    /\ \E q \in db.queries : q.id # last.id /\ q.status = "pending"
    /\ \E a \in db.annotations : a.query_id = last.id
    /\ \A v \in db.videos : v.status = "pending"

----------------------------------------------------------------------------
(* Patches of an annotation: every choice of present keys, one of them a key
   the handler does not know *)

NotesM == <<"m">>

PatchFields ==
    [start_timestamp |-> Timestamp5, end_timestamp |-> Timestamp5,
     notes |-> NotesM, query_id |-> 2]

Restrict(f, keys) == [k \in keys |-> f[k]]

PatchBodies ==
    {Restrict(PatchFields, keys) : keys \in SUBSET DOMAIN PatchFields}
        \cup {[notes |-> <<"n">>]}

NextPatch ==
    \/ SubmitVideo(CrudBodies, Answer42)
    \/ UpdateAnnotationOf(PatchBodies)

SpecPatch == Init /\ [][NextPatch]_vars

AnnotationUpdated == last.op = "update_annotation" /\ last.resp.code = 200

Patched(data, key, stored) == IF key \in DOMAIN data THEN data[key] ELSE stored

\* C27: a successful update_annotation sets start_timestamp, end_timestamp
\* and notes to the patch's value where the patch has the key and keeps the
\* stored value where it has not; keys the handler does not know have no
\* effect, and id, query_id and every other row are unchanged.
C27_PatchAppliesPresentFieldsOnly ==
    AnnotationUpdated =>
        LET target == CHOOSE a \in last.before.annotations : a.id = last.id
            patched ==
                [id |-> target.id, query_id |-> target.query_id,
                 start_timestamp |->
                     Patched(last.data, "start_timestamp", target.start_timestamp),
                 end_timestamp |->
                     Patched(last.data, "end_timestamp", target.end_timestamp),
                 notes |-> Patched(last.data, "notes", target.notes)]
        IN  /\ db.annotations = (last.before.annotations \ {target}) \cup {patched}
            /\ db.videos = last.before.videos
            /\ db.queries = last.before.queries

C27_Witness ==
    /\ AnnotationUpdated
    /\ DOMAIN last.data = {"notes", "query_id"}
    /\ \E a \in db.annotations :
           /\ a.id = last.id
           /\ a.query_id # last.data.query_id
           /\ a.notes = NotesM
           /\ a.start_timestamp = Timestamp5
           /\ a.end_timestamp = DefaultTimestamp
    /\ \E a \in last.before.annotations : a.id = last.id /\ a.notes # NotesM
    /\ \E a \in db.annotations : a.id # last.id
    /\ \E q \in db.queries : q.id = last.data.query_id

----------------------------------------------------------------------------
BlankUpdateRejected ==
    (/\ last.op = "update_query"
     /\ "query_text" \in DOMAIN last.data
     /\ last.data.query_text # None
     /\ IsBlank(last.data.query_text))
        => last.resp.code \in {400, 404} /\ db = last.before

\* C28: every stored Query's query_text is non-empty and has no leading or
\* trailing whitespace, whichever of ingest, create_query and update_query
\* wrote it; an update_query with a blank query_text is rejected and leaves
\* the store as it was.
C28_StoredTextIsTrimmed ==
    /\ \A q \in db.queries :
           /\ q.query_text # <<>>
           /\ q.query_text[1] \notin Whitespace
           /\ q.query_text[Len(q.query_text)] \notin Whitespace
    /\ BlankUpdateRejected

----------------------------------------------------------------------------
(* created_at and updated_at, with utcnow as a logical clock *)

\* Column(default=utcnow) stamps a row when it is inserted; Column(
\* onupdate=utcnow) stamps it in the UPDATE the flush emits for it, and the
\* flush emits an UPDATE only for a row one of whose columns differs from
\* the loaded value
Stamps(now, old, before, after) ==
    [id \in Ids(after) |->
        IF id \notin Ids(before)
        THEN [created_at |-> now, updated_at |-> now]
        ELSE IF (CHOOSE r \in after : r.id = id) \in before
        THEN old[id]
        ELSE [old[id] EXCEPT !.updated_at = now]]

utcnow(c, before, after) ==
    [now |-> c.now + 1,
     videos |-> Stamps(c.now, c.videos, before.videos, after.videos),
     queries |-> Stamps(c.now, c.queries, before.queries, after.queries),
     annotations |->
         Stamps(c.now, c.annotations, before.annotations, after.annotations)]

Timed(o, request) ==
    /\ clock.now <= MaxClock
    /\ Settle(o, request @@ [was |-> clock])
    /\ clock' = utcnow(clock, db, o.tx.committed)

TimedQueryBodies == {EmptyObj, [query_text |-> TextA], [query_text |-> TextB]}
TimedStatusBodies == {[status |-> "pending"], [status |-> "finished"]}
TimedAnnotationBodies == {EmptyObj, [notes |-> NotesM], [notes |-> <<"n">>]}

TimedCreateQuery ==
    \E video_id \in 1..MaxVideoId, data \in TimedQueryBodies :
        \E o \in create_query(Begin(db, sess, seq), video_id, data) :
            Timed(o, [op |-> "create_query", id |-> video_id, data |-> data])

TimedUpdateQuery ==
    \E query_id \in 1..MaxQueryId, data \in TimedQueryBodies :
        \E o \in update_query(Begin(db, sess, seq), query_id, data) :
            Timed(o, [op |-> "update_query", id |-> query_id, data |-> data])

TimedUpdateQueryStatus ==
    \E query_id \in 1..MaxQueryId, data \in TimedStatusBodies :
        \E o \in update_query_status(Begin(db, sess, seq), query_id, data) :
            Timed(o, [op |-> "update_query_status", id |-> query_id,
                      data |-> data])

TimedUpdateAnnotation ==
    \E annotation_id \in 1..MaxAnnotationId, data \in TimedAnnotationBodies :
        \E o \in update_annotation(Begin(db, sess, seq), annotation_id, data) :
            Timed(o, [op |-> "update_annotation", id |-> annotation_id,
                      data |-> data])

NextClock ==
    \/ TimedCreateQuery
    \/ TimedUpdateQuery
    \/ TimedUpdateQueryStatus
    \/ TimedUpdateAnnotation

SpecClock == Init /\ [][NextClock]_vars

----------------------------------------------------------------------------
UpdateSucceeded ==
    /\ last.op \in {"update_query", "update_query_status", "update_annotation"}
    /\ last.resp.code = 200

StampBefore ==
    IF last.op = "update_annotation" THEN last.was.annotations[last.id]
    ELSE last.was.queries[last.id]

StampAfter ==
    IF last.op = "update_annotation" THEN clock.annotations[last.id]
    ELSE clock.queries[last.id]

RowBefore ==
    IF last.op = "update_annotation"
    THEN CHOOSE a \in last.before.annotations : a.id = last.id
    ELSE CHOOSE q \in last.before.queries : q.id = last.id

RowAfter ==
    IF last.op = "update_annotation"
    THEN CHOOSE a \in db.annotations : a.id = last.id
    ELSE CHOOSE q \in db.queries : q.id = last.id

\* C29: every successful update_query, update_query_status and
\* update_annotation leaves the target row with a later updated_at and the
\* same created_at, also when the patch is empty or restates stored values.
C29_UpdateAdvancesUpdatedAt ==
    UpdateSucceeded =>
        /\ StampAfter.updated_at > StampBefore.updated_at
        /\ StampAfter.created_at = StampBefore.created_at

\* what does hold: created_at never changes, and updated_at advances exactly
\* when the call changed a column of the row
CreatedAtKept == UpdateSucceeded => StampAfter.created_at = StampBefore.created_at

UpdatedAtFollowsChange ==
    UpdateSucceeded =>
        (StampAfter.updated_at > StampBefore.updated_at <=> RowAfter # RowBefore)

EffectiveUpdateStamped ==
    /\ UpdateSucceeded
    /\ RowAfter # RowBefore
    /\ StampAfter.updated_at > StampBefore.updated_at

----------------------------------------------------------------------------
\* the item leaves its duration open: the field is omitted or null
Unresolved(item) == Get(item, "duration", JNull) = JNull

\* the code's test of the same: "not video_duration"
Falsy(item) == ~Truthy(Get(item, "duration", JNull))

NewRemote(item) ==
    /\ "url" \in DOMAIN item
    /\ item.url # None
    /\ StoredWithUrl(last.before, item.url) = {}
    /\ Remote(item.url)

Count(S) == Cardinality(S)

\* C30: the duration lookup is invoked at most once for each submitted item,
\* and only for an item whose url no stored Video has, whose duration is
\* omitted or null and whose url is remote; a failed lookup is not repeated.
C30_LookupOnlyWhenUnresolved ==
    SubmittedItems # <<>> =>
        last.lookups <=
            Count({i \in DOMAIN SubmittedItems :
                       NewRemote(SubmittedItems[i]) /\ Unresolved(SubmittedItems[i])})

\* what does hold: at most one lookup for each item that is new, remote and
\* has a duration Python reads as false (omitted, null, 0, '', 0.5 is not)
LookupOnlyWhenFalsy ==
    SubmittedItems # <<>> =>
        last.lookups <=
            Count({i \in DOMAIN SubmittedItems :
                       NewRemote(SubmittedItems[i]) /\ Falsy(SubmittedItems[i])})

FailedLookupAskedOnce ==
    /\ SubmittedItems # <<>>
    /\ last.info = LookupRaises
    /\ last.lookups = 1
    /\ last.resp.error = "Unable to fetch video duration"

----------------------------------------------------------------------------
\* the last ingest call answered with a validation or duration error
IngestRejected == (Submitted \/ Batch) /\ last.resp.code = 400

\* C31: when submit_video or submit_videos reports a validation or duration
\* error, the call has flushed no row to the store session: every check
\* came before the first write.
C31_ValidationBeforeAnyWrite == IngestRejected => ~last.flushed

\* what does hold: a single submission is checked before its first write
SingleRejectedBeforeWrite == (Submitted /\ last.resp.code = 400) => ~last.flushed

----------------------------------------------------------------------------
\* a new url with valid url and title, a positive duration and no queries
C32_Case ==
    /\ NewUrl
    /\ CoercesToPositive(Get(last.data, "duration", JNull))
    /\ Get(last.data, "queries", <<>>) = <<>>

\* C32: a submission for a new url that passes the url, title and duration
\* checks commits, with video_existed = false, a Video row whose url, title
\* and annotator are not null.
C32_NewVideoSatisfiesModel ==
    C32_Case =>
        /\ Succeeded
        /\ ~last.resp.video_existed
        /\ \E v \in db.videos \ last.before.videos :
               /\ v.url = strip(last.data.url)
               /\ v.url # NULL /\ v.title # NULL /\ v.annotator # NULL

\* where the table does not enforce the declared NOT NULL the row is
\* committed, with a null annotator
C32_NullableStoresNullAnnotator ==
    (C32_Case /\ ~annotator_not_null) =>
        /\ Succeeded
        /\ \E v \in db.videos \ last.before.videos : v.annotator = NULL

\* where it does, the flush raises and nothing is stored
C32_NotNullRaises ==
    (C32_Case /\ annotator_not_null) =>
        last.resp.code = 500 /\ db = last.before

----------------------------------------------------------------------------
(* Two requests at a time.  Each worker runs its handler statement by      *)
(* statement in a transaction of its own on the PostgreSQL store (main.py  *)
(* 17-22): a SELECT sees the committed rows and the transaction's own      *)
(* writes; an INSERT of a child row checks its foreign key against the     *)
(* parent row and waits while another transaction is deleting that row; a  *)
(* DELETE of a parent row waits while another transaction is inserting a   *)
(* child of it and fails if a committed child still refers to it.          *)

Tables == {"videos", "queries", "annotations"}

Other(p) == 3 - p

\* what a SELECT of transaction t returns
Visible(t, table) == (db[table] \cup t.ins[table]) \ t.del[table]

\* ForeignKey('videos.id') / ForeignKey('queries.id') on INSERT: the parent
\* row is being deleted by the other transaction
InsertWaits(p, table, id) ==
    \E r \in running[Other(p)].del[table] : r.id = id

ParentExists_unchecked(p, table, id) == TRUE

\* the parent row exists, committed or inserted by this transaction
ParentExists(p, table, id) ==
    \E r \in db[table] \cup running[p].ins[table] : r.id = id

\* on DELETE of queries rows: the other transaction is inserting an
\* annotation of one of them
DeleteQueriesWaits(p) ==
    \E a \in running[Other(p)].ins.annotations :
        a.query_id \in Ids(running[p].loaded.queries)

\* a committed annotation this transaction has not deleted refers to one
DeleteQueriesViolates(p) ==
    \E a \in db.annotations \ running[p].del.annotations :
        a.query_id \in Ids(running[p].loaded.queries)

DeleteVideoWaits(p) ==
    \E q \in running[Other(p)].ins.queries : q.video_id = running[p].id

DeleteVideoViolates(p) ==
    \E q \in db.queries \ running[p].del.queries : q.video_id = running[p].id

Step(p, t) ==
    /\ running' = [running EXCEPT ![p] = t]
    /\ UNCHANGED <<sess, annotator_not_null, pg, clock, last>>

\* except Exception: db.session.rollback(); 500
Aborted(t) ==
    [t EXCEPT !.pc = "done", !.code = 500, !.tried = t.del,
              !.ins = EmptyStore, !.del = EmptyStore]

RaceBodies ==
    { [url |-> u, title |-> TitleT, duration |-> JInt(42)] : u \in {UrlA, UrlB} }
    \cup { [url |-> UrlA, title |-> TitleT, duration |-> JInt(42),
            queries |-> <<[query_text |-> t, annotations |-> <<AnnN>>]>>] :
            t \in {TextA, TextB} }

\* a request arrives at an idle worker
StartSubmitVideo ==
    \E p \in Procs, data \in RaceBodies :
        /\ running[p].pc = "done"
        /\ Step(p, [Idle EXCEPT !.op = "submit_video", !.data = data,
                                !.pc = "lookup_video"])
        /\ UNCHANGED <<db, seq>>

StartCreateQuery ==
    \E video_id \in 1..MaxVideoId :
        /\ running[2].pc = "done"
        /\ Step(2, [Idle EXCEPT !.op = "create_query", !.id = video_id,
                                !.data = [query_text |-> TextA],
                                !.pc = "get_video"])
        /\ UNCHANGED <<db, seq>>

StartDeleteVideo ==
    \E video_id \in 1..MaxVideoId :
        /\ running[1].pc = "done"
        /\ Step(1, [Idle EXCEPT !.op = "delete_video", !.id = video_id,
                                !.pc = "get_video"])
        /\ UNCHANGED <<db, seq>>

\* main.py 147: existing_video = Video.query.filter_by(url=video_url).first()
LookupVideo ==
    \E p \in Procs :
        LET t == running[p]
            found == {v \in Visible(t, "videos") : v.url = t.data.url}
        IN  /\ t.pc = "lookup_video"
            /\ IF found = {}
               THEN Step(p, [t EXCEPT !.pc = "add_video"])
               ELSE \E v \in found :
                       Step(p, [t EXCEPT !.video_id = v.id, !.pc = "lookup_query"])
            /\ UNCHANGED <<db, seq>>

\* main.py 197-205: Video(...); db.session.add(video); db.session.flush()
InsertVideo ==
    \E p \in Procs :
        LET t == running[p]
            row == [Video(t.data.url, t.data.title, <<>>, <<>>,
                         int(t.data.duration).n)
                        EXCEPT !.id = seq.v]
        IN  /\ t.pc = "add_video"
            /\ seq.v <= MaxVideoId
            /\ seq' = [seq EXCEPT !.v = @ + 1]
            /\ IF VideoColumnsOk(row, annotator_not_null)
               THEN Step(p, [t EXCEPT !.ins.videos = @ \cup {row},
                                      !.video_id = row.id,
                                      !.pc = "lookup_query"])
               ELSE Step(p, Aborted(t))
            /\ UNCHANGED db

\* main.py 218-221: Query.query.filter_by(video_id, query_text).first()
LookupQuery ==
    \E p \in Procs :
        LET t == running[p]
            queries_data == Get(t.data, "queries", <<>>)
            found == {q \in Visible(t, "queries") :
                        /\ q.video_id = t.video_id
                        /\ q.query_text = queries_data[1].query_text}
        IN  /\ t.pc = "lookup_query"
            /\ IF queries_data = <<>>
               THEN Step(p, [t EXCEPT !.pc = "commit"])
               ELSE IF found = {}
               THEN Step(p, [t EXCEPT !.pc = "add_query"])
               ELSE \E q \in found :
                       Step(p, [t EXCEPT !.query_id = q.id,
                                         !.pc = "add_annotation"])
            /\ UNCHANGED <<db, seq>>

\* main.py 227-232 and 684-686: the INSERT of a Query row
InsertQuery ==
    \E p \in Procs :
        LET t == running[p]
            query_text == IF t.op = "create_query" THEN t.data.query_text
                          ELSE t.data.queries[1].query_text
            row == [Query(t.video_id, query_text) EXCEPT !.id = seq.q]
        IN  /\ t.pc = "add_query"
            /\ ~InsertWaits(p, "videos", t.video_id)
            /\ IF ~ParentExists(p, "videos", t.video_id)
               THEN Step(p, Aborted(t)) /\ UNCHANGED seq
               ELSE /\ seq.q <= MaxQueryId
                    /\ seq' = [seq EXCEPT !.q = @ + 1]
                    /\ Step(p, [t EXCEPT !.ins.queries = @ \cup {row},
                                         !.query_id = row.id,
                                         !.pc = IF t.op = "create_query"
                                                THEN "commit"
                                                ELSE "add_annotation"])
            /\ UNCHANGED db

\* main.py 238-246: the INSERT of the Annotation row, at the flush of 249
InsertAnnotation ==
    \E p \in Procs :
        LET t == running[p]
            row == [Annotation(t.query_id, DefaultTimestamp, DefaultTimestamp,
                               t.data.queries[1].annotations[1].notes)
                        EXCEPT !.id = seq.a]
        IN  /\ t.pc = "add_annotation"
            /\ ~InsertWaits(p, "queries", t.query_id)
            /\ IF ~ParentExists(p, "queries", t.query_id)
               THEN Step(p, Aborted(t)) /\ UNCHANGED seq
               ELSE /\ seq.a <= MaxAnnotationId
                    /\ seq' = [seq EXCEPT !.a = @ + 1]
                    /\ Step(p, [t EXCEPT !.ins.annotations = @ \cup {row},
                                         !.pc = "commit"])
            /\ UNCHANGED db

\* main.py 661 and 544: db.session.get(Video, video_id)
GetVideo ==
    \E p \in Procs :
        LET t == running[p]
        IN  /\ t.pc = "get_video"
            /\ IF \E v \in Visible(t, "videos") : v.id = t.id
               THEN Step(p, [t EXCEPT !.video_id = t.id,
                                      !.pc = IF t.op = "create_query"
                                             THEN "add_query" ELSE "cascade"])
               ELSE Step(p, [t EXCEPT !.pc = "done", !.code = 404])
            /\ UNCHANGED <<db, seq>>

\* main.py 551: db.session.delete(video) loads video.queries and their
\* annotations (models.py 23, 57: cascade='all, delete-orphan')
Cascade ==
    \E p \in Procs :
        LET t == running[p]
            queries == {q \in Visible(t, "queries") : q.video_id = t.id}
            annotations == {a \in Visible(t, "annotations") :
                               a.query_id \in Ids(queries)}
        IN  /\ t.pc = "cascade"
            /\ Step(p, [t EXCEPT !.loaded.queries = queries,
                                  !.loaded.annotations = annotations,
                                  !.pc = "delete_annotations"])
            /\ UNCHANGED <<db, seq>>

\* main.py 552: the flush deletes annotations, then queries, then the video
DeleteAnnotations ==
    \E p \in Procs :
        LET t == running[p]
        IN  /\ t.pc = "delete_annotations"
            /\ Step(p, [t EXCEPT !.del.annotations = t.loaded.annotations,
                                  !.pc = "delete_queries"])
            /\ UNCHANGED <<db, seq>>

DeleteQueries ==
    \E p \in Procs :
        LET t == running[p]
        IN  /\ t.pc = "delete_queries"
            /\ ~DeleteQueriesWaits(p)
            /\ IF DeleteQueriesViolates(p)
               THEN Step(p, Aborted(t))
               ELSE Step(p, [t EXCEPT !.del.queries = t.loaded.queries,
                                      !.pc = "delete_video"])
            /\ UNCHANGED <<db, seq>>

DeleteVideoRow ==
    \E p \in Procs :
        LET t == running[p]
        IN  /\ t.pc = "delete_video"
            /\ ~DeleteVideoWaits(p)
            /\ IF DeleteVideoViolates(p)
               THEN Step(p, Aborted(t))
               ELSE Step(p, [t EXCEPT
                               !.del.videos = {v \in db.videos : v.id = t.id},
                               !.pc = "commit"])
            /\ UNCHANGED <<db, seq>>

\* db.session.commit(): COMMIT
CommitTransaction ==
    \E p \in Procs :
        LET t == running[p]
        IN  /\ t.pc = "commit"
            /\ db' = [table \in Tables |->
                          (db[table] \cup t.ins[table]) \ t.del[table]]
            /\ Step(p, [t EXCEPT !.pc = "done",
                                  !.code = IF t.op = "delete_video" THEN 200
                                           ELSE 201,
                                  !.tried = t.del,
                                  !.ins = EmptyStore, !.del = EmptyStore])
            /\ UNCHANGED seq

NextRace ==
    \/ StartSubmitVideo
    \/ StartCreateQuery
    \/ StartDeleteVideo
    \/ LookupVideo
    \/ InsertVideo
    \/ LookupQuery
    \/ InsertQuery
    \/ InsertAnnotation
    \/ GetVideo
    \/ Cascade
    \/ DeleteAnnotations
    \/ DeleteQueries
    \/ DeleteVideoRow
    \/ CommitTransaction

SpecRace == Init /\ [][NextRace]_vars

----------------------------------------------------------------------------
\* C33: whatever the interleaving of two submit_video requests for the same
\* new url, the committed store holds at most one Video with that url.
C33_OneVideoPerUrl ==
    \A v \in db.videos, w \in db.videos : v.url = w.url => v = w

\* the waits never form a cycle with the requests considered
NoDeadlock ==
    ~(/\ \/ running[1].pc = "delete_queries" /\ DeleteQueriesWaits(1)
         \/ running[1].pc = "delete_video" /\ DeleteVideoWaits(1)
         \/ running[1].pc = "add_query" /\ InsertWaits(1, "videos", running[1].video_id)
         \/ running[1].pc = "add_annotation"
               /\ InsertWaits(1, "queries", running[1].query_id)
      /\ \/ running[2].pc = "add_query" /\ InsertWaits(2, "videos", running[2].video_id)
         \/ running[2].pc = "add_annotation"
               /\ InsertWaits(2, "queries", running[2].query_id))

\* without the race the claim of C33 is kept: where no Video can be
\* inserted at all, trivially
C33_HoldsWhereNothingIsInserted == annotator_not_null => C33_OneVideoPerUrl

----------------------------------------------------------------------------
DeleteEnded(code) ==
    /\ running[1].op = "delete_video"
    /\ running[1].pc = "done"
    /\ running[1].code = code

\* C34: with delete_video(v) interleaved in any way with create_query(v) or
\* a submit_video that reuses v, every committed Query refers to a stored
\* Video and every committed Annotation to a stored Query, and a
\* delete_video ends either with v and all rows under it gone or, when it
\* fails, with every row it had deleted still stored.
C34_NoOrphanNoPartialDelete ==
    /\ \A q \in db.queries : q.video_id \in Ids(db.videos)
    /\ \A a \in db.annotations : a.query_id \in Ids(db.queries)
    /\ DeleteEnded(500) =>
           /\ running[1].id \in Ids(db.videos)
           /\ \A table \in Tables : running[1].tried[table] \subseteq db[table]
    /\ DeleteEnded(200) =>
           /\ running[1].id \notin Ids(db.videos)
           /\ \A q \in db.queries : q.video_id # running[1].id
           /\ \A table \in Tables : running[1].tried[table] \cap db[table] = {}

\* the delete had deleted the children it loaded, met the Query a
\* concurrent create_query committed meanwhile, and failed as a whole
C34_Witness ==
    /\ DeleteEnded(500)
    /\ running[1].tried.queries # {}
    /\ running[1].tried.annotations # {}
    /\ running[2].op = "create_query" /\ running[2].code = 201
    /\ \E q \in db.queries :
           q.id = running[2].query_id /\ q.video_id = running[1].id

\* the other outcome: the delete commits first and the insert fails
DeleteWinsInsertFails ==
    /\ DeleteEnded(200)
    /\ running[2].op \in {"create_query", "submit_video"}
    /\ running[2].code = 500
    /\ running[2].video_id = running[1].id

====
